---- MODULE Spec2Model ----
(***************************************************************************)
(* Relationship persistence and loading engine of falkordb-py-orm.         *)
(*                                                                         *)
(* The graph store is modelled by what the Cypher statements the library   *)
(* emits mean: nodes carry an internal identity (their position in         *)
(* `nodes`, counted from 0), a label, an optional property called `id` and *)
(* one ordinary property `name`; edges are a bag of <<source, type,        *)
(* target>> triples over internal identities.                              *)
(*                                                                         *)
(* Entities are the in-memory objects of one self-referential entity class *)
(* (the tests' Person / Employee shapes); the declaration of its one       *)
(* relationship field and the kind of its id field are drawn in Init.      *)
(***************************************************************************)
EXTENDS Integers, Sequences, FiniteSets, Bags, TLC

\* ----------------------------------------------------------------- bounds
\* Longest list a caller assigns to a collection relationship field.
MaxListLen == 2
\* The caller performs at most this many writing operations: calls of
\* repo.save and changes of a saved entity (its field or its property).
MaxOps == 3
\* Deepest nesting of Repository.save calls followed before the run is
\* reported as not terminating (Python raises RecursionError).
MaxDepth == 6

\* ------------------------------------------------------------- the schema
\* Python's None for an id.
NoId == -1

\* The in-memory entity objects (object identity is the name).
Objs == {"A", "B", "C", "D"}
\* The objects whose relationship field the caller assigns.
Sources == {"A", "B"}
\* Position of an object in the order callers list them.
Rank(o) == CASE o = "A" -> 1 [] o = "B" -> 2 [] o = "C" -> 3 [] o = "D" -> 4

\* Values of the ordinary property.
Names == {"n1", "n2"}

Label == "Person"
RelType == "KNOWS"

\* RelationshipMetadata of the one relationship field, with the
\* PropertyMetadata.id_generator of the id field (idgen: is not None).
Decls ==
    [direction : {"OUTGOING", "INCOMING", "BOTH"},
     is_collection : BOOLEAN,
     cascade : BOOLEAN,
     resolved : BOOLEAN,
     idgen : BOOLEAN]

\* The declarations of the entity classes that are saved: a class that
\* refers to itself names its target by a forward reference, which the
\* node decorator leaves unresolved (target_class is None).
SavedDecls == {d \in Decls : d.direction = "OUTGOING" /\ ~d.resolved}

VARIABLES
    decl,      \* the schema drawn at start
    ents,      \* the entity objects: id, name, relationship field
    nodes,     \* the store's nodes, internal id = position - 1
    edges,     \* the store's edges, a bag of <<src, type, dst>>
    tracker,   \* RelationshipManager._entity_tracker of the repository
    stmts,     \* statements the last operation sent to graph.query
    last,      \* what the last operation was, and what it started from
    ops,       \* how many writing operations the caller has performed
    savedRel,  \* per entity, the field value its last save processed
    found,     \* what the last find returned
    proxy,     \* the Loading Proxy of the entity the last find hydrated
    fetched,   \* what the last find_all returned
    tasks,     \* the save calls in progress on one repository
    session,   \* the AsyncSession: identity map, pending sets, closed
    security   \* the SecurityContext of one user, and its last can()

vars == <<decl, ents, nodes, edges, tracker, stmts, last, ops,
          savedRel, found, proxy, fetched, tasks, session, security>>

\* ------------------------------------------------------------ the store
NodeIds(ns) == 0 .. (Len(ns) - 1)
NodeAt(ns, i) == ns[i + 1]

Stmt(k, a, b) == [kind |-> k, a |-> a, b |-> b]

\* The edge a relationship between source and target is written/read as.
EdgeOf(d, src, dst) ==
    IF d.direction = "INCOMING" THEN <<dst, RelType, src>>
    ELSE <<src, RelType, dst>>

\* ----------------------------------------------------- relationship values
RelNone == [kind |-> "none", items |-> <<>>]
RelList(s) == [kind |-> "list", items |-> s]
RelOne(o) == [kind |-> "one", items |-> <<o>>]

\* The objects of a set listed in caller order.
RECURSIVE InOrder(_)
InOrder(S) ==
    IF S = {} THEN <<>>
    ELSE LET f == CHOOSE x \in S : \A y \in S : Rank(x) <= Rank(y)
         IN <<f>> \o InOrder(S \ {f})

\* What the caller assigns to the relationship field of entity o: A lists
\* any of the others, B at most one of A and C.
Targets(o) == IF o = "A" THEN {"B", "C", "D"} ELSE {"A", "C"}
Longest(o) == IF o = "A" THEN MaxListLen ELSE 1

RelValues(d, o) ==
    IF d.is_collection
    THEN {RelNone} \cup
         {RelList(InOrder(S)) : S \in {T \in SUBSET Targets(o) :
                                         Cardinality(T) <= Longest(o)}}
    ELSE {RelNone} \cup {RelOne(t) : t \in Targets(o)}

\* ---------------------------------------------------- failing statements
\* The statement about to be sent is the one the store fails (failAt counts
\* the statements of one top-level save from 1; 0: none fails).
Failing(st) == st.failAt # 0 /\ Len(st.stmts) + 1 = st.failAt

\* graph.query raises: the statement was sent and changed nothing.
Fail(st, stmt) ==
    [st EXCEPT !.stmts = Append(@, stmt), !.raised = TRUE, !.wraps = 0]

\* ---------------------------------------------------------------- mapper
\* EntityMapper.map_to_cypher_create + graph.query: CREATE (n:Label) SET
\* n.name = ... RETURN n, id(n).  An id that is None is never written (and
\* Repository.save creates only entities whose id is None).
MapToCypherCreate(st, o) ==
    LET nid == Len(st.nodes)
        n == [label |-> Label, idprop |-> st.ents[o].id, name |-> st.ents[o].name]
    IN IF Failing(st)
       THEN [st |-> Fail(st, Stmt("CREATE", NoId, NoId)), node_id |-> NoId]
       ELSE [st |-> [st EXCEPT !.nodes = Append(@, n),
                               !.stmts = Append(@, Stmt("CREATE", nid, NoId))],
             node_id |-> nid]

\* EntityMapper.map_to_cypher_merge + graph.query:
\* MERGE (n:Label {id: $id}) SET n.name = ... RETURN n, id(n).
MapToCypherMerge(st, o) ==
    LET eid == st.ents[o].id
        hit == {i \in NodeIds(st.nodes) :
                    /\ NodeAt(st.nodes, i).label = Label
                    /\ NodeAt(st.nodes, i).idprop = eid}
    IN IF Failing(st)
       THEN [st |-> Fail(st, Stmt("MERGE", NoId, eid)), node_id |-> NoId]
       ELSE IF hit = {}
       THEN LET nid == Len(st.nodes)
                n == [label |-> Label, idprop |-> eid, name |-> st.ents[o].name]
            IN [st |-> [st EXCEPT !.nodes = Append(@, n),
                                  !.stmts = Append(@, Stmt("MERGE", nid, eid))],
                node_id |-> nid]
       ELSE LET nid == CHOOSE i \in hit : \A j \in hit : i <= j
            IN [st |-> [st EXCEPT
                          !.nodes = [k \in DOMAIN @ |->
                                        IF (k - 1) \in hit
                                        THEN [@[k] EXCEPT !.name = st.ents[o].name]
                                        ELSE @[k]],
                          !.stmts = Append(@, Stmt("MERGE", nid, eid))],
                node_id |-> nid]

\* The id of a created node is not written back to the entity.
UpdateEntityId_Skipped(st, o, nid) == st

\* EntityMapper.update_entity_id
UpdateEntityId(st, o, nid) == [st EXCEPT !.ents[o].id = nid]

\* ------------------------------------------------- relationship manager
\* The edge statement is sent but matches no pair of nodes.
CreateRelationshipEdge_Unmatched(st, sid, tid) ==
    [st EXCEPT !.stmts = Append(@, Stmt("EDGE", sid, tid))]

\* RelationshipManager._create_relationship_edge + the statement
\* MATCH (source), (target) WHERE id(source) = .. AND id(target) = ..
\* CREATE (source)-[:T]->(target): no edge when either node is missing.
CreateRelationshipEdge(st, sid, tid) ==
    LET present == sid \in NodeIds(st.nodes) /\ tid \in NodeIds(st.nodes)
    IN IF Failing(st) THEN Fail(st, Stmt("EDGE", sid, tid))
       ELSE
       [st EXCEPT
          !.edges = IF present
                    THEN @ (+) SetToBag({EdgeOf(st.decl, sid, tid)})
                    ELSE @,
          !.stmts = Append(@, Stmt("EDGE", sid, tid))]

RECURSIVE RepositorySave(_, _, _, _)
RECURSIVE SaveItems(_, _, _, _, _)

\* The cascade flag is ignored: an unsaved related entity is always saved.
GetOrSaveRelatedEntity_AlwaysCascade(st, t, depth) ==
    IF st.ents[t].id # NoId
    THEN [st |-> st, id |-> st.ents[t].id]
    ELSE LET s2 == RepositorySave(st, t, depth + 1, {})
         IN [st |-> s2.st, id |-> s2.st.ents[t].id]

\* A related entity is saved under cascade whether or not it has an id.
GetOrSaveRelatedEntity_Resaving(st, t, depth) ==
    IF st.decl.cascade
    THEN LET s2 == RepositorySave(st, t, depth + 1, {})
         IN [st |-> s2.st, id |-> s2.st.ents[t].id]
    ELSE [st |-> st, id |-> st.ents[t].id]

\* RelationshipManager._get_or_save_related_entity: the id the edge uses
\* (NoId: none) and the state after a cascading save.
GetOrSaveRelatedEntity(st, t, depth) ==
    IF st.ents[t].id # NoId
    THEN [st |-> st, id |-> st.ents[t].id]
    ELSE IF st.decl.cascade
         THEN LET s2 == RepositorySave(st, t, depth + 1, {})
              IN [st |-> s2.st, id |-> s2.st.ents[t].id]
         ELSE [st |-> st, id |-> NoId]

\* The loop over the related entities of one relationship field.
SaveItems(st, sid, items, i, depth) ==
    IF i > Len(items) \/ st.overflow \/ st.raised
    THEN st
    ELSE LET r == GetOrSaveRelatedEntity(st, items[i], depth)
             s2 == IF r.id # NoId /\ ~r.st.overflow /\ ~r.st.raised
                   THEN CreateRelationshipEdge(r.st, sid, r.id)
                   ELSE r.st
         IN SaveItems(s2, sid, items, i + 1, depth)

\* RelationshipManager.save_relationships (is_update = False, the only value
\* Repository.save passes).  trk is the manager's _entity_tracker.
SaveRelationships(st, o, sid, depth, trk) ==
    IF <<o, sid>> \in trk
    THEN st
    ELSE LET v == st.ents[o].rel
         IN IF v.kind \in {"none", "lazy"}
            THEN st
            ELSE SaveItems(st, sid, v.items, 1, depth)

\* The key is removed only when the call does not raise.
EntityTrackerAfter_NoFinally(trk, o, sid, s) ==
    IF <<o, sid>> \in trk THEN trk
    ELSE IF s.raised THEN trk \cup {<<o, sid>>}
    ELSE (trk \cup {<<o, sid>>}) \ {<<o, sid>>}

\* The manager's _entity_tracker when save_relationships(o, sid) that
\* began with trk and ended in s returns: an early return touches nothing;
\* otherwise the key is added and `finally` discards it.
EntityTrackerAfter(trk, o, sid, s) ==
    IF <<o, sid>> \in trk THEN trk
    ELSE (trk \cup {<<o, sid>>}) \ {<<o, sid>>}

\* `except Exception as e: raise QueryException(...) from e`.
Wrap(st) == IF st.raised THEN [st EXCEPT !.wraps = @ + 1] ELSE st

\* A save that undoes what it wrote when a statement of it fails.
RepositorySave_Compensating(st, o, depth, trk) ==
    IF depth > MaxDepth
    THEN [st |-> [st EXCEPT !.overflow = TRUE], node_id |-> NoId]
    ELSE LET has_id == st.ents[o].id # NoId
             r == IF has_id THEN MapToCypherMerge(st, o)
                            ELSE MapToCypherCreate(st, o)
             s2 == IF ~has_id THEN UpdateEntityId(r.st, o, r.node_id) ELSE r.st
             s3 == IF r.st.raised THEN r.st
                   ELSE SaveRelationships(s2, o, r.node_id, depth, trk)
         IN [st |-> IF s3.raised
                    THEN Wrap([s3 EXCEPT !.nodes = st.nodes, !.edges = st.edges,
                                         !.ents = st.ents])
                    ELSE s3,
             node_id |-> r.node_id]

\* A save that lets the store's error through as it is.
RepositorySave_Unwrapped(st, o, depth, trk) ==
    IF depth > MaxDepth
    THEN [st |-> [st EXCEPT !.overflow = TRUE], node_id |-> NoId]
    ELSE LET has_id == st.ents[o].id # NoId
             r == IF has_id THEN MapToCypherMerge(st, o)
                            ELSE MapToCypherCreate(st, o)
             s2 == IF ~has_id THEN UpdateEntityId(r.st, o, r.node_id) ELSE r.st
         IN [st |-> IF r.st.raised THEN r.st
                    ELSE SaveRelationships(s2, o, r.node_id, depth, trk),
             node_id |-> r.node_id]

\* Repository.save.  Returns [st, node_id]; trk is the tracker of the
\* repository's relationship manager (empty for the temporary repository a
\* cascade creates).  A statement that raises ends the save at once, and
\* the error leaves wrapped in QueryException.
RepositorySave(st, o, depth, trk) ==
    IF depth > MaxDepth
    THEN [st |-> [st EXCEPT !.overflow = TRUE], node_id |-> NoId]
    ELSE LET has_id == st.ents[o].id # NoId
             r == IF has_id THEN MapToCypherMerge(st, o)
                            ELSE MapToCypherCreate(st, o)
             s2 == IF ~has_id THEN UpdateEntityId(r.st, o, r.node_id) ELSE r.st
         IN [st |-> IF r.st.raised THEN Wrap(r.st)
                    ELSE Wrap(SaveRelationships(s2, o, r.node_id, depth, trk)),
             node_id |-> r.node_id]

\* ------------------------------------------------- the two engines
\* RelationshipManager._delete_relationship_edges: QueryBuilder has no
\* build_relationship_delete_query, so the call raises AttributeError
\* before any statement is sent.
DeleteRelationshipEdges(st, sid) == [st EXCEPT !.raised = TRUE, !.wraps = 0]

\* The existing edges are deleted before the field is looked at.
SaveRelationshipsSync_DeleteFirst(st, o, sid, depth, trk, is_update) ==
    IF <<o, sid>> \in trk
    THEN st
    ELSE LET v == st.ents[o].rel
         IN IF is_update
            THEN DeleteRelationshipEdges(st, sid)
            ELSE IF v.kind \in {"none", "lazy"}
                 THEN st
                 ELSE SaveItems(st, sid, v.items, 1, depth)

\* RelationshipManager.save_relationships with its is_update parameter.
SaveRelationshipsSync(st, o, sid, depth, trk, is_update) ==
    IF <<o, sid>> \in trk
    THEN st
    ELSE LET v == st.ents[o].rel
         IN IF v.kind \in {"none", "lazy"}
            THEN st
            ELSE IF is_update
                 THEN DeleteRelationshipEdges(st, sid)
                 ELSE SaveItems(st, sid, v.items, 1, depth)

\* AsyncRelationshipManager._create_relationship_edge
AsyncCreateRelationshipEdge(st, sid, tid) ==
    LET present == sid \in NodeIds(st.nodes) /\ tid \in NodeIds(st.nodes)
    IN IF Failing(st) THEN Fail(st, Stmt("EDGE", sid, tid))
       ELSE [st EXCEPT
               !.edges = IF present
                         THEN @ (+) SetToBag({EdgeOf(st.decl, sid, tid)})
                         ELSE @,
               !.stmts = Append(@, Stmt("EDGE", sid, tid))]

RECURSIVE AsyncRepositorySave(_, _, _, _)
RECURSIVE AsyncSaveItems(_, _, _, _, _)

\* AsyncRelationshipManager._get_or_save_related_entity
AsyncGetOrSaveRelatedEntity(st, t, depth) ==
    IF st.ents[t].id # NoId
    THEN [st |-> st, id |-> st.ents[t].id]
    ELSE IF st.decl.cascade
         THEN LET s2 == AsyncRepositorySave(st, t, depth + 1, {})
              IN [st |-> s2.st, id |-> s2.st.ents[t].id]
         ELSE [st |-> st, id |-> NoId]

\* The loop of the cooperative engine over the related entities.
AsyncSaveItems(st, sid, items, i, depth) ==
    IF i > Len(items) \/ st.overflow \/ st.raised
    THEN st
    ELSE LET r == AsyncGetOrSaveRelatedEntity(st, items[i], depth)
             s2 == IF r.id # NoId /\ ~r.st.overflow /\ ~r.st.raised
                   THEN AsyncCreateRelationshipEdge(r.st, sid, r.id)
                   ELSE r.st
         IN AsyncSaveItems(s2, sid, items, i + 1, depth)

\* AsyncRelationshipManager.save_relationships: it has no is_update
\* parameter and no deletion step.
AsyncSaveRelationships(st, o, sid, depth, trk) ==
    IF <<o, sid>> \in trk
    THEN st
    ELSE LET v == st.ents[o].rel
         IN IF v.kind \in {"none", "lazy"}
            THEN st
            ELSE AsyncSaveItems(st, sid, v.items, 1, depth)

\* AsyncRepository.save, the save a cooperative cascade calls: the same
\* steps as Repository.save, with the cooperative engine.
AsyncRepositorySave(st, o, depth, trk) ==
    IF depth > MaxDepth
    THEN [st |-> [st EXCEPT !.overflow = TRUE], node_id |-> NoId]
    ELSE LET has_id == st.ents[o].id # NoId
             r == IF has_id THEN MapToCypherMerge(st, o)
                            ELSE MapToCypherCreate(st, o)
             s2 == IF ~has_id THEN UpdateEntityId(r.st, o, r.node_id) ELSE r.st
         IN [st |-> IF r.st.raised THEN Wrap(r.st)
                    ELSE Wrap(AsyncSaveRelationships(s2, o, r.node_id, depth, trk)),
             node_id |-> r.node_id]

\* ----------------------------------------------------------------- find
\* What find_by_id returns when no row matches: None.
NotFound == [present |-> FALSE, internal |-> NoId, id |-> NoId,
             name |-> "n1", rel |-> "none"]

\* QueryBuilder.build_match_by_id_query + graph.query: the internal ids of
\* the rows, in the store's order.
BuildMatchByIdQuery(d, ns, id) ==
    IF d.idgen
    THEN {i \in NodeIds(ns) : NodeAt(ns, i).label = Label /\ i = id}
    ELSE {i \in NodeIds(ns) : NodeAt(ns, i).label = Label
                              /\ NodeAt(ns, i).idprop = id}

\* EntityMapper.map_from_node (with _initialize_lazy_relationships): the
\* hydrated entity of the node with internal id i.
MapFromNode(d, ns, i) ==
    LET n == NodeAt(ns, i)
    IN [present |-> TRUE,
        internal |-> i,
        id |-> IF n.idprop # NoId THEN n.idprop
               ELSE IF d.idgen THEN i ELSE NoId,
        name |-> n.name,
        rel |-> IF d.resolved THEN "lazy" ELSE "none"]

\* Repository.find_by_id without fetch hints.
FindByIdLazy(d, ns, id) ==
    LET rows == BuildMatchByIdQuery(d, ns, id)
    IN IF rows = {} THEN NotFound
       ELSE MapFromNode(d, ns, CHOOSE i \in rows : \A j \in rows : i <= j)

\* -------------------------------------------------------- loading proxies
\* The field of an entity that was not hydrated with a proxy.
NoProxy == [kind |-> "none", source_id |-> NoId, loaded |-> FALSE,
            items |-> <<>>, accesses |-> 0, queries |-> 0, fails |-> 0,
            seen |-> <<>>, ret |-> <<>>, raised |-> FALSE, hit |-> FALSE]

\* create_lazy_proxy: LazyList for a collection, LazySingle for a
\* reference; _loaded = False, nothing cached.  accesses, queries, fails,
\* seen, ret, raised and hit are bookkeeping of what the reader observed.
CreateLazyProxy(d, sid) ==
    [NoProxy EXCEPT !.kind = IF d.is_collection THEN "list" ELSE "single",
                    !.source_id = sid]

\* n copies of x.
RECURSIVE Copies(_, _)
Copies(x, n) == IF n <= 0 THEN <<>> ELSE <<x>> \o Copies(x, n - 1)

\* How many edges match the relationship pattern between sid and t.
Matches(d, es, sid, t) ==
    CASE d.direction = "OUTGOING" -> CopiesIn(<<sid, RelType, t>>, es)
      [] d.direction = "INCOMING" -> CopiesIn(<<t, RelType, sid>>, es)
      [] OTHER -> CopiesIn(<<sid, RelType, t>>, es)
                  + CopiesIn(<<t, RelType, sid>>, es)

\* QueryBuilder.build_relationship_load_query + graph.query:
\* MATCH (source)-[:T]-(target:Label) WHERE id(source) = $source_id
\* RETURN target.  One row per matching edge, listed by target.
RECURSIVE LoadRows(_, _, _, _, _)
LoadRows(d, ns, es, sid, t) ==
    IF t >= Len(ns) THEN <<>>
    ELSE (IF NodeAt(ns, t).label = Label
          THEN Copies(t, Matches(d, es, sid, t)) ELSE <<>>)
         \o LoadRows(d, ns, es, sid, t + 1)

\* LazyList._load was not marking the proxy loaded.
LazyListLoad_Unmarked(p, rows, ok) ==
    IF p.loaded THEN [p EXCEPT !.hit = TRUE, !.raised = FALSE]
    ELSE IF ~ok
    THEN [p EXCEPT !.queries = @ + 1, !.fails = @ + 1, !.raised = TRUE,
                   !.hit = FALSE]
    ELSE [p EXCEPT !.queries = @ + 1, !.items = rows, !.seen = rows,
                   !.raised = FALSE, !.hit = FALSE]

\* LazyList._load: nothing when loaded; else one query, whose rows are
\* cached, and _loaded is set once the query has answered (ok); a query
\* that raises leaves the proxy as it was.
LazyListLoad(p, rows, ok) ==
    IF p.loaded THEN [p EXCEPT !.hit = TRUE, !.raised = FALSE]
    ELSE IF ~ok
    THEN [p EXCEPT !.queries = @ + 1, !.fails = @ + 1, !.raised = TRUE,
                   !.hit = FALSE]
    ELSE [p EXCEPT !.queries = @ + 1, !.items = rows, !.seen = rows,
                   !.loaded = TRUE, !.raised = FALSE, !.hit = FALSE]

\* LazySingle._load marking the proxy loaded only when a target was found.
LazySingleLoad_FoundOnly(p, rows, ok) ==
    IF p.loaded THEN [p EXCEPT !.hit = TRUE, !.raised = FALSE]
    ELSE IF ~ok
    THEN [p EXCEPT !.queries = @ + 1, !.fails = @ + 1, !.raised = TRUE,
                   !.hit = FALSE]
    ELSE [p EXCEPT !.queries = @ + 1,
                   !.items = IF rows = <<>> THEN <<>> ELSE <<rows[1]>>,
                   !.seen = rows,
                   !.loaded = (rows # <<>>), !.raised = FALSE, !.hit = FALSE]

\* LazySingle._load: as LazyList._load, caching the first row or None.
LazySingleLoad(p, rows, ok) ==
    IF p.loaded THEN [p EXCEPT !.hit = TRUE, !.raised = FALSE]
    ELSE IF ~ok
    THEN [p EXCEPT !.queries = @ + 1, !.fails = @ + 1, !.raised = TRUE,
                   !.hit = FALSE]
    ELSE [p EXCEPT !.queries = @ + 1,
                   !.items = IF rows = <<>> THEN <<>> ELSE <<rows[1]>>,
                   !.seen = rows,
                   !.loaded = TRUE, !.raised = FALSE, !.hit = FALSE]

\* --------------------------------------------------------------- find_all
\* The nodes MATCH (n:Label) returns, in the store's order.
RECURSIVE BaseRows(_, _)
BaseRows(ns, i) ==
    IF i >= Len(ns) THEN <<>>
    ELSE (IF NodeAt(ns, i).label = Label THEN <<i>> ELSE <<>>)
         \o BaseRows(ns, i + 1)

\* The column collect(DISTINCT hint_target) of the row of node n in
\* QueryBuilder.build_eager_loading_query_all.
RECURSIVE Collected(_, _, _, _, _)
Collected(d, ns, es, n, t) ==
    IF t >= Len(ns) THEN <<>>
    ELSE (IF NodeAt(ns, t).label = Label /\ Matches(d, es, n, t) > 0
          THEN <<t>> ELSE <<>>)
         \o Collected(d, ns, es, n, t + 1)

\* EntityMapper.map_with_relationships for the row of node n.  The hint
\* column exists when the target class is resolved, and `hint in record`
\* finds it when the record is a mapping (fmt = "dict"), not when it is
\* the list a result set holds (fmt = "list").
MapWithRelationships(d, ns, es, n, fmt) ==
    LET e == MapFromNode(d, ns, n)
        col == Collected(d, ns, es, n, 0)
    IN [node |-> e,
        rel |-> IF d.resolved /\ fmt = "dict"
                THEN IF d.is_collection THEN [kind |-> "list", items |-> col]
                     ELSE [kind |-> "one",
                           items |-> IF col = <<>> THEN <<>> ELSE <<col[1]>>]
                ELSE [kind |-> e.rel, items |-> <<>>]]

\* EntityMapper.map_from_record on the lazy path of find_all.
MapFromRecord(d, ns, n) ==
    LET e == MapFromNode(d, ns, n)
    IN [node |-> e, rel |-> [kind |-> e.rel, items |-> <<>>]]

\* A find_all that loads the relationship of each entity by its own query.
RepositoryFindAll_PerEntity(d, ns, es, fetch, fmt) ==
    LET base == BaseRows(ns, 0)
    IN [stmts |-> <<Stmt("MATCH_ALL", NoId, NoId)>>
                  \o [i \in 1 .. (IF fetch THEN Len(base) ELSE 0) |->
                         Stmt("LOAD", base[i], NoId)],
        entities |-> [i \in 1 .. Len(base) |->
                        IF fetch THEN MapWithRelationships(d, ns, es, base[i], fmt)
                        ELSE MapFromRecord(d, ns, base[i])]]

\* Repository.find_all: one graph.query, with the eager query when fetch
\* hints are given, then one hydration per row.
RepositoryFindAll(d, ns, es, fetch, fmt) ==
    LET base == BaseRows(ns, 0)
    IN [stmts |-> <<Stmt("MATCH_ALL", NoId, NoId)>>,
        entities |-> [i \in 1 .. Len(base) |->
                        IF fetch THEN MapWithRelationships(d, ns, es, base[i], fmt)
                        ELSE MapFromRecord(d, ns, base[i])]]

\* ---------------------------------------------------------------- actions
St == [decl |-> decl, ents |-> ents, nodes |-> nodes, edges |-> edges,
       stmts |-> <<>>, overflow |-> FALSE, failAt |-> 0, raised |-> FALSE,
       wraps |-> 0]

\* The record of a call: what was called (op, obj, arg, fetch), what it
\* started from (hadId, ids, nNodes, prevRel; pre: the store's nodes for a
\* delete, its edges for a save on a failing store), and how it ended
\* (node_id, raised, wraps: how many QueryExceptions wrap the error; ok and
\* failAt: what the store did).
\* Python's None for an entity, and a get that has not been made.
None == "None"
NotYet == "NotYet"

FirstOp == [op |-> "init", obj |-> "A", hadId |-> FALSE,
            ids |-> [o \in Objs |-> NoId],
            nNodes |-> 0, node_id |-> NoId, raised |-> FALSE,
            prevRel |-> RelNone, arg |-> NoId, fetch |-> FALSE,
            pre |-> <<>>, ok |-> TRUE, wraps |-> 0, failAt |-> 0,
            twin |-> <<>>, ret |-> None]

NoOp == [FirstOp EXCEPT !.ids = [o \in Objs |-> ents[o].id],
                        !.nNodes = Len(nodes)]

\* ------------------------------------------------ calls in progress
\* The callers that may be inside Repository.save at the same time.
Tasks == {1, 2}

\* A caller that is not inside save.  pc: where the call stands (idle,
\* node: the node statement is sent, edge: an edge statement is sent,
\* done); sid: the source_id of its save_relationships; i: the item whose
\* edge is sent; sent: the edge statements it has sent; skipped: it found
\* its key in the tracker.
NoTask == [pc |-> "idle", o |-> "A", sid |-> NoId, i |-> 0, sent |-> 0,
           skipped |-> FALSE, ret |-> <<>>]
NoTasks == [t \in Tasks |-> NoTask]

\* ------------------------------------------------------------- session
\* The ids a caller passes to get.
MaxSessId == 2
SessIds == 0 .. MaxSessId

\* AsyncSession.__init__.  map: _identity_map of the one entity class;
\* new, dirty, deleted: the pending sets; orig: _original_state (NoId: no
\* entry); closed: _closed.  entered, exited: the context block.  got: per
\* id, what the last answered get of it returned, forgotten at a delete.
\* base: per entity, its properties when it was loaded or last written by
\* a flush.  inserts: per entity, the CREATE statements the store carried
\* out for it since it was added.
NoSession == [closed |-> FALSE, entered |-> FALSE, exited |-> FALSE,
              map |-> [i \in SessIds |-> None],
              new |-> {}, dirty |-> {}, deleted |-> {},
              orig |-> [o \in Objs |-> [has |-> FALSE, id |-> NoId, name |-> "n1"]],
              loaded |-> {},
              got |-> [i \in SessIds |-> NotYet],
              base |-> [o \in Objs |-> [has |-> FALSE, id |-> NoId, name |-> "n1"]],
              inserts |-> [o \in Objs |-> 0]]

\* ------------------------------------------------------------ security
\* The role names: PUBLIC, which every user has, an ordinary role, admin.
RoleNames == {"PUBLIC", "reader", "admin"}

\* No SecurityContext has been made.
NoSecurity == [roles |-> {}, granted |-> [r \in RoleNames |-> {}],
               todo |-> {}, cache |-> <<>>, asked |-> <<>>, ret |-> FALSE]

\* The object graph the caller builds before the first save: A and B hold
\* any value of their field; D may have been saved earlier (alone, with
\* its field unset), which gave it the first internal id.
Init ==
    /\ decl \in SavedDecls
    /\ \E va \in RelValues(decl, "A"), vb \in RelValues(decl, "B"), preD \in BOOLEAN :
          /\ ents = [o \in Objs |->
                       [id |-> IF o = "D" /\ preD THEN 0 ELSE NoId,
                        name |-> "n1",
                        rel |-> IF o = "A" THEN va ELSE IF o = "B" THEN vb
                                ELSE RelNone]]
          /\ nodes = IF preD
                     THEN <<[label |-> Label, idprop |-> NoId, name |-> "n1"]>>
                     ELSE <<>>
          /\ last = [FirstOp EXCEPT
                       !.ids = [o \in Objs |-> IF o = "D" /\ preD THEN 0 ELSE NoId],
                       !.nNodes = IF preD THEN 1 ELSE 0]
    /\ edges = EmptyBag
    /\ tracker = {}
    /\ stmts = <<>>
    /\ ops = 0
    /\ savedRel = [o \in Objs |-> RelNone]
    /\ found = NotFound
    /\ proxy = NoProxy
    /\ fetched = <<>>
    /\ tasks = NoTasks
    /\ session = NoSession
    /\ security = NoSecurity

\* The caller assigns the relationship field of a saved entity.
Assign(o, v) ==
    /\ ops < MaxOps
    /\ ents[o].id # NoId
    /\ ents[o].rel # v
    /\ ents' = [ents EXCEPT ![o].rel = v]
    /\ stmts' = <<>>
    /\ last' = [NoOp EXCEPT !.op = "assign", !.obj = o]
    /\ ops' = ops + 1
    /\ found' = NotFound
    /\ UNCHANGED <<tasks, session, security, decl, nodes, edges, tracker, savedRel, proxy, fetched>>

\* The caller changes the ordinary property of a saved entity.
SetName(o, n) ==
    /\ ops < MaxOps
    /\ ents[o].id # NoId
    /\ ents[o].name # n
    /\ ents' = [ents EXCEPT ![o].name = n]
    /\ stmts' = <<>>
    /\ last' = [NoOp EXCEPT !.op = "setname", !.obj = o]
    /\ ops' = ops + 1
    /\ found' = NotFound
    /\ UNCHANGED <<tasks, session, security, decl, nodes, edges, tracker, savedRel, proxy, fetched>>

\* repo.save(o) on the repository of the entity class.
Save(o) ==
    LET r == RepositorySave(St, o, 0, tracker)
    IN /\ ops < MaxOps
       /\ ops' = ops + 1
       /\ ents' = r.st.ents
       /\ nodes' = r.st.nodes
       /\ edges' = r.st.edges
       /\ stmts' = r.st.stmts
       /\ tracker' = EntityTrackerAfter(tracker, o, r.node_id, r.st)
       /\ last' = [NoOp EXCEPT !.op = "save", !.obj = o,
                               !.hadId = (ents[o].id # NoId),
                               !.node_id = r.node_id,
                               !.raised = r.st.overflow,
                               !.prevRel = savedRel[o]]
       /\ savedRel' = [x \in Objs |->
                          IF x = o \/ (ents[x].id = NoId /\ r.st.ents[x].id # NoId)
                          THEN ents[x].rel ELSE savedRel[x]]
       /\ found' = NotFound
       /\ UNCHANGED <<tasks, session, security, decl, proxy, fetched>>

\* repo.find_by_id(id), called right after a save: id is the id of one of
\* the entities, or an id no node has.
FindById(id) ==
    /\ last.op = "save"
    /\ ~last.raised
    /\ found' = FindByIdLazy(decl, nodes, id)
    /\ stmts' = <<Stmt("MATCH_ID", id, NoId)>>
    /\ last' = [last EXCEPT !.op = "find", !.arg = id]
    /\ UNCHANGED <<tasks, session, security, decl, ents, nodes, edges, tracker, ops, savedRel,
                   proxy, fetched>>

Next ==
    \/ \E o \in Sources : \E v \in RelValues(decl, o) : Assign(o, v)
    \/ \E n \in Names : SetName("A", n)
    \/ \E o \in Sources : Save(o)
    \/ \E id \in {ents[o].id : o \in Objs} \cup {Len(nodes)} :
          id # NoId /\ FindById(id)

Spec == Init /\ [][Next]_vars

\* ------------------------------------------------ saving on a failing store
\* The store fails a statement among the first MaxFailAt of a save.
MaxFailAt == 4

\* repo.save(o) during which the store fails the f-th statement: what the
\* earlier statements wrote is in the store, the caller gets the error.
SaveFailing(o, f) ==
    LET r == RepositorySave([St EXCEPT !.failAt = f], o, 0, tracker)
    IN /\ ops < MaxOps
       /\ ~last.raised
       /\ r.st.raised
       /\ ops' = ops + 1
       /\ ents' = r.st.ents
       /\ nodes' = r.st.nodes
       /\ edges' = r.st.edges
       /\ stmts' = r.st.stmts
       /\ tracker' = EntityTrackerAfter(tracker, o, r.node_id, r.st)
       /\ last' = [NoOp EXCEPT !.op = "save", !.obj = o,
                               !.hadId = (ents[o].id # NoId),
                               !.node_id = r.node_id,
                               !.raised = TRUE,
                               !.prevRel = savedRel[o],
                               !.wraps = r.st.wraps,
                               !.failAt = f,
                               !.pre = edges]
       /\ UNCHANGED <<tasks, session, security, decl, savedRel, found, proxy, fetched>>

\* Saves on a store that may fail one statement; the caller stops at the
\* first error.
SaveAnswered(o) == ~last.raised /\ Save(o)

NextFail ==
    \/ \E o \in Sources : SaveAnswered(o)
    \/ \E o \in Sources, f \in 1 .. MaxFailAt : SaveFailing(o, f)

SpecFail == Init /\ [][NextFail]_vars

\* ------------------------------------------------ the engines compared
\* What a call left behind, for comparing two runs from the same state.
Outcome(st) == [stmts |-> st.stmts, nodes |-> st.nodes, edges |-> st.edges,
                ids |-> [o \in Objs |-> st.ents[o].id],
                raised |-> st.raised \/ st.overflow]

\* manager.save_relationships(o, source_id, metadata, is_update) on the
\* blocking engine, for an entity that has been saved; the record keeps
\* what the cooperative engine leaves when called for the same entity,
\* source id and store.
EngineSave(o, is_update) ==
    LET sid == ents[o].id
        s == SaveRelationshipsSync(St, o, sid, 0, tracker, is_update)
        a == AsyncSaveRelationships(St, o, sid, 0, tracker)
    IN /\ ops < MaxOps
       /\ ~last.raised
       /\ sid # NoId
       /\ ops' = ops + 1
       /\ ents' = s.ents
       /\ nodes' = s.nodes
       /\ edges' = s.edges
       /\ stmts' = s.stmts
       /\ last' = [NoOp EXCEPT !.op = "relsave", !.obj = o, !.hadId = is_update,
                               !.node_id = sid,
                               !.raised = s.raised \/ s.overflow,
                               !.twin = Outcome(a)]
       /\ tracker' = EntityTrackerAfter(tracker, o, sid, s)
       /\ UNCHANGED <<security, decl, savedRel, found, proxy, fetched, tasks,
                      session>>

AssignAnswered(o, v) == ~last.raised /\ Assign(o, v)

\* o = repo.find_by_id(o.id): the caller goes on with the entity the
\* repository hydrates, whose relationship field is a Loading Proxy.
Refetch(o) ==
    LET e == FindByIdLazy(decl, nodes, ents[o].id)
    IN /\ ops < MaxOps
       /\ ~last.raised
       /\ ents[o].id # NoId
       /\ e.present
       /\ ops' = ops + 1
       /\ ents' = [ents EXCEPT ![o] = [id |-> e.id, name |-> e.name,
                                       rel |-> [kind |-> e.rel, items |-> <<>>]]]
       /\ stmts' = <<Stmt("MATCH_ID", ents[o].id, NoId)>>
       /\ last' = [NoOp EXCEPT !.op = "refetch", !.obj = o]
       /\ UNCHANGED <<security, decl, nodes, edges, tracker, savedRel, found,
                      proxy, fetched, tasks, session>>

NextEngines ==
    \/ \E o \in Sources : \E v \in RelValues(decl, o) : AssignAnswered(o, v)
    \/ \E o \in Sources : SaveAnswered(o)
    \/ \E o \in Sources, u \in BOOLEAN : EngineSave(o, u)

SpecEngines == Init /\ [][NextEngines]_vars

\* ------------------------------------------ hydrated entities saved again
\* The class names a target class that the decorator resolved: find_by_id
\* hydrates the relationship field with a Loading Proxy.
InitHydrated ==
    /\ decl \in {d \in Decls : d.direction = "OUTGOING" /\ d.resolved}
    /\ \E va \in RelValues(decl, "A"), vb \in RelValues(decl, "B"), preD \in BOOLEAN :
          /\ ents = [o \in Objs |->
                       [id |-> IF o = "D" /\ preD THEN 0 ELSE NoId,
                        name |-> "n1",
                        rel |-> IF o = "A" THEN va ELSE IF o = "B" THEN vb
                                ELSE RelNone]]
          /\ nodes = IF preD
                     THEN <<[label |-> Label, idprop |-> NoId, name |-> "n1"]>>
                     ELSE <<>>
          /\ last = [FirstOp EXCEPT
                       !.ids = [o \in Objs |-> IF o = "D" /\ preD THEN 0 ELSE NoId],
                       !.nNodes = IF preD THEN 1 ELSE 0]
    /\ edges = EmptyBag
    /\ tracker = {}
    /\ stmts = <<>>
    /\ ops = 0
    /\ savedRel = [o \in Objs |-> RelNone]
    /\ found = NotFound
    /\ proxy = NoProxy
    /\ fetched = <<>>
    /\ tasks = NoTasks
    /\ session = NoSession
    /\ security = NoSecurity

NextHydrated ==
    \/ \E o \in Sources : SaveAnswered(o)
    \/ \E o \in Sources : Refetch(o)
    \/ \E o \in Sources, u \in BOOLEAN : EngineSave(o, u)

SpecHydrated == InitHydrated /\ [][NextHydrated]_vars

\* ------------------------------------------------------ the cycle guard
\* manager._entity_tracker.add((id(o), o.id)): a key is in the guard set
\* when save_relationships is called.
TrackEntity(o) ==
    /\ ops < MaxOps
    /\ ~last.raised
    /\ ents[o].id # NoId
    /\ <<o, ents[o].id>> \notin tracker
    /\ tracker' = tracker \cup {<<o, ents[o].id>>}
    /\ ops' = ops + 1
    /\ stmts' = <<>>
    /\ last' = [NoOp EXCEPT !.op = "track", !.obj = o]
    /\ UNCHANGED <<security, decl, ents, nodes, edges, savedRel, found, proxy,
                   fetched, tasks, session>>

NextGuard ==
    \/ \E o \in Objs : TrackEntity(o)
    \/ \E o \in Sources : SaveAnswered(o)
    \/ \E o \in Sources, u \in BOOLEAN : EngineSave(o, u)

SpecGuard == Init /\ [][NextGuard]_vars

\* ------------------------------------------- saves that overlap in time
\* Two callers save through one repository, hence one relationship manager
\* and one _entity_tracker.  A call is cut at its store calls: a step runs
\* from the answer of one graph.query to the sending of the next, which is
\* where cooperative tasks switch and one of the places threads can.
RECURSIVE SaveEach(_, _, _)
\* repo.save of each entity of os in turn, one call after the other.
SaveEach(st, os, i) ==
    IF i > Len(os) THEN st
    ELSE SaveEach(RepositorySave(st, os[i], 0, {}).st, os, i + 1)

\* The store and the entities after the caller saved A and some of the
\* others, with their fields unset, and then saved A and B again; the
\* fields of A and B are assigned afterwards.
InitConc ==
    /\ decl \in {d \in SavedDecls : ~d.cascade}
    /\ \E S \in SUBSET {"B", "C", "D"} :
       \E va \in RelValues(decl, "A"), vb \in RelValues(decl, "B") :
          LET e0 == [o \in Objs |-> [id |-> NoId, name |-> "n1", rel |-> RelNone]]
              s0 == [decl |-> decl, ents |-> e0, nodes |-> <<>>,
                     edges |-> EmptyBag, stmts |-> <<>>, overflow |-> FALSE,
                     failAt |-> 0, raised |-> FALSE, wraps |-> 0]
              s1 == SaveEach(s0, InOrder(S \cup {"A"}), 1)
              s2 == SaveEach(s1, InOrder((S \cup {"A"}) \cap Sources), 1)
          IN /\ ents = [s2.ents EXCEPT !["A"].rel = va, !["B"].rel = vb]
             /\ nodes = s2.nodes
             /\ edges = s2.edges
    /\ tracker = {}
    /\ stmts = <<>>
    /\ last = FirstOp
    /\ ops = 0
    /\ savedRel = [o \in Objs |-> RelNone]
    /\ found = NotFound
    /\ proxy = NoProxy
    /\ fetched = <<>>
    /\ tasks = NoTasks
    /\ session = NoSession
    /\ security = NoSecurity

\* The store as a call in progress sees it; its statements are appended
\* to those already sent.
StNow == [St EXCEPT !.stmts = stmts]

\* The related entities of the field of o, in order (none for a field that
\* is None or a proxy).
FieldItems(o) ==
    IF ents[o].rel.kind \in {"none", "lazy"} THEN <<>> ELSE ents[o].rel.items

\* The first item at or after i that gets an edge: with cascade off,
\* _get_or_save_related_entity gives an id only for an entity that has one.
NextItem(o, i) ==
    LET I == {k \in i .. Len(FieldItems(o)) : ents[FieldItems(o)[k]].id # NoId}
    IN IF I = {} THEN 0 ELSE CHOOSE k \in I : \A j \in I : k <= j

\* Repository.save up to its first store call: the MERGE of an entity that
\* has an id is sent.
TaskCall(t, o) ==
    LET r == MapToCypherMerge(StNow, o)
    IN /\ tasks[t].pc = "idle"
       /\ ents[o].id # NoId
       /\ nodes' = r.st.nodes
       /\ stmts' = r.st.stmts
       /\ tasks' = [tasks EXCEPT ![t] = [NoTask EXCEPT !.pc = "node", !.o = o,
                                                      !.sid = r.node_id]]
       /\ UNCHANGED <<security, decl, ents, edges, tracker, last, ops, savedRel, found,
                      proxy, fetched, session>>

\* The edge statement of item k of the field of task t is sent.
SendEdge(t, k) ==
    LET o == tasks[t].o
        s == CreateRelationshipEdge(StNow, tasks[t].sid, ents[FieldItems(o)[k]].id)
    IN /\ edges' = s.edges
       /\ stmts' = s.stmts
       /\ tasks' = [tasks EXCEPT ![t].pc = "edge", ![t].i = k,
                                 ![t].sent = @ + 1]

\* The MERGE is answered: save_relationships begins.  It returns at once
\* when its key is in the tracker; otherwise it adds the key and runs to
\* its first edge statement, or to the end (finally: discard the key).
TaskEnter(t) ==
    LET o == tasks[t].o
        key == <<o, tasks[t].sid>>
        k == NextItem(o, 1)
    IN /\ tasks[t].pc = "node"
       /\ IF key \in tracker
          THEN /\ tasks' = [tasks EXCEPT ![t].pc = "done", ![t].skipped = TRUE]
               /\ UNCHANGED <<tracker, edges, stmts>>
          ELSE IF k = 0
          THEN /\ tasks' = [tasks EXCEPT ![t].pc = "done"]
               /\ tracker' = tracker \ {key}
               /\ UNCHANGED <<edges, stmts>>
          ELSE /\ tracker' = tracker \cup {key}
               /\ SendEdge(t, k)
       /\ UNCHANGED <<security, decl, ents, nodes, last, ops, savedRel, found, proxy,
                      fetched, session>>

\* An edge statement is answered: the loop goes on to the next edge
\* statement, or ends (finally: discard the key).
TaskEdge(t) ==
    LET o == tasks[t].o
        key == <<o, tasks[t].sid>>
        k == NextItem(o, tasks[t].i + 1)
    IN /\ tasks[t].pc = "edge"
       /\ IF k = 0
          THEN /\ tasks' = [tasks EXCEPT ![t].pc = "done"]
               /\ tracker' = tracker \ {key}
               /\ UNCHANGED <<edges, stmts>>
          ELSE /\ SendEdge(t, k)
               /\ UNCHANGED tracker
       /\ UNCHANGED <<security, decl, ents, nodes, last, ops, savedRel, found, proxy,
                      fetched, session>>

NextConc ==
    \/ \E t \in Tasks, o \in Sources : TaskCall(t, o)
    \/ \E t \in Tasks : TaskEnter(t)
    \/ \E t \in Tasks : TaskEdge(t)

SpecConc == InitConc /\ [][NextConc]_vars

\* ------------------------------------------------- reading a stored graph
\* Bounds of the stored graphs that are read.
MaxNodes == 3
MaxEdges == 3
\* A reader makes at most this many read accesses to one proxy.
MaxAccess == 2

StoredNode(l) == [label |-> l, idprop |-> NoId, name |-> "n1"]

\* A stored graph of up to MaxNodes nodes of the entity's label, or of one
\* such node and a node of another label; no edges yet, nothing read yet.
\* The cascade flag plays no part in loading, and the id field takes the
\* store's internal id.
InitLoad ==
    /\ decl \in {d \in Decls : ~d.cascade /\ d.idgen}
    /\ nodes \in {[i \in 1 .. n |-> StoredNode(Label)] : n \in 1 .. MaxNodes}
                 \cup {<<StoredNode(Label), StoredNode("Other")>>}
    /\ ents = [o \in Objs |-> [id |-> NoId, name |-> "n1", rel |-> RelNone]]
    /\ last = FirstOp
    /\ edges = EmptyBag
    /\ tracker = {}
    /\ stmts = <<>>
    /\ ops = 0
    /\ savedRel = [o \in Objs |-> RelNone]
    /\ found = NotFound
    /\ proxy = NoProxy
    /\ fetched = <<>>
    /\ tasks = NoTasks
    /\ session = NoSession
    /\ security = NoSecurity

\* A save elsewhere links a stored node to a younger one (the edge
\* statement of _create_relationship_edge).  Once the reader holds its
\* entities, the links followed are those at the node whose proxy it reads.
LinkEdge(s, t) ==
    LET r == CreateRelationshipEdge(St, s, t)
    IN /\ BagCardinality(edges) < MaxEdges
       /\ s < t
       /\ last.op \in {"init", "link"} \/ proxy.source_id \in {s, t}
       /\ edges' = r.edges
       /\ stmts' = r.stmts
       /\ last' = [last EXCEPT !.op = "link", !.raised = FALSE]
       /\ UNCHANGED <<tasks, session, security, decl, ents, nodes, tracker, ops, savedRel, found,
                      proxy, fetched>>

\* repo.find_all(fetch), until one call has returned entities: ok says
\* whether the store answers the query; fmt is the shape of the records of
\* the result set.  The reader keeps the k-th entity and goes on reading
\* its relationship field.
FindAll(fetch, fmt, ok, k) ==
    LET r == RepositoryFindAll(decl, nodes, edges, fetch, fmt)
        es == IF ok THEN r.entities ELSE <<>>
    IN /\ last.op \in {"init", "link"}
       /\ fetched = <<>>
       /\ k \in 1 .. Len(r.entities)
       /\ stmts' = r.stmts
       /\ fetched' = es
       /\ proxy' = IF ok /\ es[k].rel.kind = "lazy"
                   THEN CreateLazyProxy(decl, es[k].node.internal)
                   ELSE NoProxy
       /\ last' = [last EXCEPT !.op = "find_all", !.raised = ~ok,
                               !.fetch = fetch]
       /\ UNCHANGED <<tasks, session, security, decl, ents, nodes, edges, tracker, ops, savedRel, found>>

\* A read access to the proxy (iteration, len, indexing, containment of a
\* LazyList; get, bool, attribute access of a LazySingle): all of them call
\* _load first and then read the cache.
Access(ok) ==
    LET rows == LoadRows(decl, nodes, edges, proxy.source_id, 0)
        p == IF proxy.kind = "list" THEN LazyListLoad(proxy, rows, ok)
             ELSE LazySingleLoad(proxy, rows, ok)
    IN /\ proxy.kind # "none"
       /\ proxy.accesses < MaxAccess
       /\ proxy' = [p EXCEPT !.accesses = @ + 1,
                             !.ret = IF p.raised THEN <<>> ELSE p.items]
       /\ stmts' = Copies(Stmt("LOAD", proxy.source_id, NoId),
                          p.queries - proxy.queries)
       /\ last' = [last EXCEPT !.op = "access", !.raised = p.raised]
       /\ UNCHANGED <<tasks, session, security, decl, ents, nodes, edges, tracker, ops, savedRel, found,
                      fetched>>

NextLoad ==
    \/ \E s \in NodeIds(nodes), t \in NodeIds(nodes) : LinkEdge(s, t)
    \/ \E fetch \in BOOLEAN, fmt \in {"list", "dict"}, ok \in BOOLEAN :
          \E k \in 1 .. Len(nodes) : FindAll(fetch, fmt, ok, k)
    \/ \E ok \in BOOLEAN : Access(ok)

SpecLoad == InitLoad /\ [][NextLoad]_vars

\* ---------------------------------------------- readers that overlap
\* Two readers (tasks of one event loop on the cooperative engine, threads
\* on the blocking one) read the same proxy.  _load is cut at its store
\* call: a reader that finds _loaded false sends the load query and waits
\* for the answer; the rest of _load runs when the answer arrives.

\* _load up to the store call, for a reader that has not read yet.
ReadBegin(t) ==
    /\ proxy.kind # "none"
    /\ tasks[t].pc = "idle"
    /\ IF proxy.loaded
       THEN /\ tasks' = [tasks EXCEPT ![t].pc = "done", ![t].ret = proxy.items]
            /\ stmts' = <<>>
            /\ UNCHANGED proxy
       ELSE /\ tasks' = [tasks EXCEPT ![t].pc = "waiting", ![t].sent = 1]
            /\ stmts' = <<Stmt("LOAD", proxy.source_id, NoId)>>
            /\ proxy' = [proxy EXCEPT !.queries = @ + 1]
    /\ UNCHANGED <<security, decl, ents, nodes, edges, tracker, last, ops,
                   savedRel, found, fetched, session>>

\* The store answers the query of reader t: _load caches the rows and sets
\* _loaded, and the reader gets what the cache holds.
ReadAnswer(t) ==
    LET rows == LoadRows(decl, nodes, edges, proxy.source_id, 0)
        q == [proxy EXCEPT !.loaded = FALSE]
        r == IF proxy.kind = "list" THEN LazyListLoad(q, rows, TRUE)
             ELSE LazySingleLoad(q, rows, TRUE)
        p == [r EXCEPT !.queries = proxy.queries]
    IN /\ tasks[t].pc = "waiting"
       /\ proxy' = p
       /\ tasks' = [tasks EXCEPT ![t].pc = "done", ![t].ret = p.items]
       /\ stmts' = <<>>
       /\ UNCHANGED <<security, decl, ents, nodes, edges, tracker, last, ops,
                      savedRel, found, fetched, session>>

NextReaders ==
    \/ \E s \in NodeIds(nodes), t \in NodeIds(nodes) : LinkEdge(s, t)
    \/ \E fetch \in BOOLEAN, fmt \in {"list", "dict"}, ok \in BOOLEAN :
          \E k \in 1 .. Len(nodes) : FindAll(fetch, fmt, ok, k)
    \/ \E t \in Tasks : ReadBegin(t)
    \/ \E t \in Tasks : ReadAnswer(t)

SpecReaders == InitLoad /\ [][NextReaders]_vars

\* ------------------------------------------------- finding and deleting
\* QueryBuilder.build_eager_loading_query + graph.query: the base match
\* MATCH (n:Label) WHERE id(n) = $id, or WHERE n.id = $id when the id field
\* has no generator; the rows are grouped by n, so no match gives no row.
BuildEagerLoadingQuery(d, ns, id) ==
    IF d.idgen
    THEN {i \in NodeIds(ns) : NodeAt(ns, i).label = Label /\ i = id}
    ELSE {i \in NodeIds(ns) : NodeAt(ns, i).label = Label
                              /\ NodeAt(ns, i).idprop = id}

\* A find_by_id that hydrates the first record without looking whether the
\* result set has one.
RepositoryFindById_Unchecked(d, ns, es, id, fetch, fmt) ==
    LET rows == IF fetch THEN BuildEagerLoadingQuery(d, ns, id)
                ELSE BuildMatchByIdQuery(d, ns, id)
    IN [stmts |-> <<Stmt("MATCH_ID", id, NoId)>>,
        raised |-> rows = {},
        entities |-> IF rows = {} THEN <<>>
                     ELSE LET n == CHOOSE i \in rows : \A j \in rows : i <= j
                          IN IF fetch
                             THEN <<MapWithRelationships(d, ns, es, n, fmt)>>
                             ELSE <<MapFromRecord(d, ns, n)>>]

\* Repository.find_by_id: one graph.query; None (no entity) when the result
\* set is empty, else the hydration of its first record.
RepositoryFindById(d, ns, es, id, fetch, fmt) ==
    LET rows == IF fetch THEN BuildEagerLoadingQuery(d, ns, id)
                ELSE BuildMatchByIdQuery(d, ns, id)
    IN [stmts |-> <<Stmt("MATCH_ID", id, NoId)>>,
        raised |-> FALSE,
        entities |-> IF rows = {} THEN <<>>
                     ELSE LET n == CHOOSE i \in rows : \A j \in rows : i <= j
                          IN IF fetch
                             THEN <<MapWithRelationships(d, ns, es, n, fmt)>>
                             ELSE <<MapFromRecord(d, ns, n)>>]

\* The label position of a node the store has deleted.
Gone == "Gone"

\* QueryBuilder.build_delete_by_id_query: the nodes MATCH ... DELETE n
\* matches, by internal id or by the property id.
BuildDeleteByIdQuery(d, ns, id) ==
    IF d.idgen
    THEN {i \in NodeIds(ns) : NodeAt(ns, i).label = Label /\ i = id}
    ELSE {i \in NodeIds(ns) : NodeAt(ns, i).label = Label
                              /\ NodeAt(ns, i).idprop = id}

\* The edges with an end among the nodes D.
Incident(es, D) == {e \in BagToSet(es) : e[1] \in D \/ e[3] \in D}

\* The store after DELETE of the nodes D: the nodes are gone, and so are
\* the edges at them.
StoreDelete(ns, es, D) ==
    [nodes |-> [k \in DOMAIN ns |->
                  IF (k - 1) \in D THEN [ns[k] EXCEPT !.label = Gone] ELSE ns[k]],
     edges |-> [e \in BagToSet(es) \ Incident(es, D) |-> es[e]]]

\* A delete that follows the relationship and removes the related nodes too.
RepositoryDeleteById_Cascading(d, ns, es, id) ==
    LET D == BuildDeleteByIdQuery(d, ns, id)
        R == {t \in NodeIds(ns) : \E n \in D : Matches(d, es, n, t) > 0}
    IN [stmts |-> <<Stmt("DELETE", id, NoId)>>, deleted |-> D \cup R]

\* Repository.delete_by_id: one statement, MATCH (n:Label ...) DELETE n.
RepositoryDeleteById(d, ns, es, id) ==
    [stmts |-> <<Stmt("DELETE", id, NoId)>>,
     deleted |-> BuildDeleteByIdQuery(d, ns, id)]

\* The declarations found and deleted with.
FindDecls == {d \in Decls : ~d.cascade}

\* The edges a stored graph may hold: from the oldest node to the others.
EdgePairs(ns) == {<<0, RelType, t>> : t \in NodeIds(ns) \ {0}}

\* A stored graph: up to MaxNodes nodes of the entity's label, or one such
\* node with a node of another label, or a created node with the node a
\* re-save merged for it (which carries the property id); any of the edges.
InitFind ==
    /\ decl \in FindDecls
    /\ nodes \in {[i \in 1 .. n |-> StoredNode(Label)] : n \in 1 .. MaxNodes}
                 \cup {<<StoredNode(Label), StoredNode("Other")>>}
                 \cup {<<StoredNode(Label), [StoredNode(Label) EXCEPT !.idprop = 0]>>}
    /\ edges \in {SetToBag(E) : E \in SUBSET EdgePairs(nodes)}
    /\ ents = [o \in Objs |-> [id |-> NoId, name |-> "n1", rel |-> RelNone]]
    /\ last = FirstOp
    /\ tracker = {}
    /\ stmts = <<>>
    /\ ops = 0
    /\ savedRel = [o \in Objs |-> RelNone]
    /\ found = NotFound
    /\ proxy = NoProxy
    /\ fetched = <<>>
    /\ tasks = NoTasks
    /\ session = NoSession
    /\ security = NoSecurity

\* repo.find_by_id(id, fetch), as the first call on the stored graph or
\* after a delete that came first: ok says whether the store answers the query, fmt is the
\* shape of the records of the result set (which plays no part without
\* fetch hints).
FindByIdLoad(id, fetch, fmt, ok) ==
    LET r == RepositoryFindById(decl, nodes, edges, id, fetch, fmt)
        failed == ~ok \/ r.raised
        es == IF failed THEN <<>> ELSE r.entities
    IN /\ last.op \in {"init", "delete"}
       /\ fetched = <<>>
       /\ fetch \/ fmt = "list"
       /\ stmts' = r.stmts
       /\ fetched' = es
       /\ proxy' = IF es # <<>> /\ es[1].rel.kind = "lazy"
                   THEN CreateLazyProxy(decl, es[1].node.internal)
                   ELSE NoProxy
       /\ last' = [last EXCEPT !.op = "find_by_id", !.raised = failed,
                               !.fetch = fetch, !.arg = id, !.pre = <<>>,
                               !.ok = ok]
       /\ UNCHANGED <<tasks, session, security, decl, ents, nodes, edges, tracker, ops, savedRel, found>>

\* The caller has not called delete so far, nor read a proxy.
NoDeleteYet ==
    /\ last.op # "delete"
    /\ proxy.accesses = 0
    /\ \A i \in NodeIds(nodes) : NodeAt(nodes, i).label # Gone

\* repo.delete_by_id(id), the caller's one delete.  The store either removes the matched nodes with
\* their edges (ok) or refuses the statement, which raises QueryException.
DeleteById(id, ok) ==
    LET r == RepositoryDeleteById(decl, nodes, edges, id)
        st == StoreDelete(nodes, edges, r.deleted)
    IN /\ NoDeleteYet
       /\ stmts' = r.stmts
       /\ nodes' = IF ok THEN st.nodes ELSE nodes
       /\ edges' = IF ok THEN st.edges ELSE edges
       /\ last' = [last EXCEPT !.op = "delete", !.raised = ~ok, !.arg = id,
                               !.fetch = FALSE, !.pre = nodes, !.ok = ok]
       /\ UNCHANGED <<tasks, session, security, decl, ents, tracker, ops, savedRel, found, proxy, fetched>>

\* repo.delete(entity) for the k-th entity the last find returned: raises
\* EntityNotFoundException, sending nothing, when the entity has no id.
Delete(k, ok) ==
    /\ k \in 1 .. Len(fetched)
    /\ IF fetched[k].node.id = NoId
       THEN /\ NoDeleteYet
            /\ stmts' = <<>>
            /\ last' = [last EXCEPT !.op = "delete", !.raised = TRUE,
                                    !.arg = NoId, !.fetch = FALSE, !.pre = nodes]
            /\ UNCHANGED <<tasks, session, security, decl, ents, nodes, edges, tracker, ops, savedRel,
                           found, proxy, fetched>>
       ELSE DeleteById(fetched[k].node.id, ok)

NextFind ==
    \/ \E id \in 0 .. Len(nodes), fetch \in BOOLEAN, fmt \in {"list", "dict"},
          ok \in BOOLEAN : FindByIdLoad(id, fetch, fmt, ok)
    \/ \E fetch \in BOOLEAN, fmt \in {"list", "dict"}, ok \in BOOLEAN :
          \E k \in 1 .. Len(nodes) : FindAll(fetch, fmt, ok, k)
    \/ \E ok \in BOOLEAN : Access(ok)
    \/ \E id \in 0 .. Len(nodes), ok \in BOOLEAN : DeleteById(id, ok)
    \/ \E k \in 1 .. Len(nodes), ok \in BOOLEAN : Delete(k, ok)

SpecFind == InitFind /\ [][NextFind]_vars


\* ------------------------------------------- the two ways of loading
\* The store holds at most this many edges of the relationship between the
\* same two nodes (each edge statement of a save creates one more).
MaxCopies == 2

\* A stored graph as for find, with up to MaxCopies edges from the oldest
\* node to each of the others.
InitAgree ==
    /\ decl \in FindDecls
    /\ nodes \in {[i \in 1 .. n |-> StoredNode(Label)] : n \in 1 .. MaxNodes}
                 \cup {<<StoredNode(Label), StoredNode("Other")>>}
    /\ \E c \in [EdgePairs(nodes) -> 0 .. MaxCopies] :
          edges = [e \in {p \in EdgePairs(nodes) : c[p] > 0} |-> c[e]]
    /\ ents = [o \in Objs |-> [id |-> NoId, name |-> "n1", rel |-> RelNone]]
    /\ last = FirstOp
    /\ tracker = {}
    /\ stmts = <<>>
    /\ ops = 0
    /\ savedRel = [o \in Objs |-> RelNone]
    /\ found = NotFound
    /\ proxy = NoProxy
    /\ fetched = <<>>
    /\ tasks = NoTasks
    /\ session = NoSession
    /\ security = NoSecurity

\* repo.find_by_id(id) without fetch hints, for the id the caller has just
\* fetched with hints: the caller keeps the entity fetched with hints and
\* goes on reading the relationship field of this one.
FindByIdLazily(id) ==
    LET r == RepositoryFindById(decl, nodes, edges, id, FALSE, "list")
    IN /\ last.op = "find_by_id" /\ last.fetch /\ ~last.raised
       /\ last.arg = id
       /\ fetched # <<>>
       /\ stmts' = r.stmts
       /\ proxy' = IF r.entities # <<>> /\ r.entities[1].rel.kind = "lazy"
                   THEN CreateLazyProxy(decl, r.entities[1].node.internal)
                   ELSE NoProxy
       /\ last' = [last EXCEPT !.op = "find_lazy"]
       /\ UNCHANGED <<tasks, session, security, decl, ents, nodes, edges,
                      tracker, ops, savedRel, found, fetched>>

NextAgree ==
    \/ \E id \in NodeIds(nodes), fmt \in {"list", "dict"}, ok \in BOOLEAN :
          FindByIdLoad(id, TRUE, fmt, ok)
    \/ \E id \in NodeIds(nodes) : FindByIdLazily(id)
    \/ \E ok \in BOOLEAN : Access(ok)

SpecAgree == InitAgree /\ [][NextAgree]_vars

\* ---------------------------------------------------------- the session
\* The caller makes at most this many calls on the session before it
\* leaves the block.
MaxSessOps == 4

\* The declarations of the entity class the session is used with.
SessDecls == {d \in Decls : /\ d.direction = "OUTGOING" /\ ~d.is_collection
                            /\ ~d.cascade /\ ~d.resolved}

\* The entities the caller constructs, and the instances get constructs
\* (C for the first node it hydrates, D for the second).
Made == {"A", "B"}
Loadable == {"C", "D"}
InHand == Made \cup session.loaded

\* The orders in which a set can be iterated.
Orders(S) == {q \in [1 .. Cardinality(S) -> S] :
                 \A i, j \in 1 .. Cardinality(S) : q[i] = q[j] => i = j}

\* The session is used in `async with AsyncSession(graph) as session:`.
\* The stored graphs it starts from: empty; a node created for an
\* entity whose id the caller had set to 1; a node created for an entity
\* without an id; that node and the one the second save of its entity
\* merged.
SessGraphs ==
    {<<>>,
     <<[label |-> Label, idprop |-> 1, name |-> "n1"]>>,
     <<[label |-> Label, idprop |-> NoId, name |-> "n1"]>>,
     <<[label |-> Label, idprop |-> NoId, name |-> "n1"],
       [label |-> Label, idprop |-> 0, name |-> "n1"]>>}

InitSession ==
    /\ decl \in SessDecls
    /\ nodes \in SessGraphs
    /\ ents = [o \in Objs |-> [id |-> NoId, name |-> "n1", rel |-> RelNone]]
    /\ edges = EmptyBag
    /\ tracker = {}
    /\ stmts = <<>>
    /\ last = FirstOp
    /\ ops = 0
    /\ savedRel = [o \in Objs |-> RelNone]
    /\ found = NotFound
    /\ proxy = NoProxy
    /\ fetched = <<>>
    /\ tasks = NoTasks
    /\ session = [NoSession EXCEPT !.entered = TRUE]
    /\ security = NoSecurity

\* The store and the session a session method works on; f: the statement
\* of the method that the store fails (0: none).
Sess(f) == [st |-> [St EXCEPT !.failAt = f], sess |-> session]

\* An exception raised before any statement is sent.
Raise(ss) == [ss EXCEPT !.st.raised = TRUE, !.st.wraps = 0]

\* AsyncSession._capture_state
CaptureState(ss, o) ==
    [ss EXCEPT !.sess.orig[o] = [has |-> TRUE, id |-> ss.st.ents[o].id,
                                 name |-> ss.st.ents[o].name]]

\* AsyncSession._restore_state: the captured properties are set again; a
\* property that was None when captured is not in the captured state.
RestoreState(ss, o) ==
    LET c == ss.sess.orig[o]
    IN IF ~c.has THEN ss
       ELSE [ss EXCEPT !.st.ents[o].name = c.name,
                       !.st.ents[o].id = IF c.id # NoId THEN c.id ELSE @]

\* AsyncSession._is_entity_modified
IsEntityModified(ss, o) ==
    LET c == ss.sess.orig[o]
    IN \/ ~c.has
       \/ ss.st.ents[o].id # c.id
       \/ ss.st.ents[o].name # c.name

\* AsyncSession._insert_entity
InsertEntity(ss, o) ==
    LET r == MapToCypherCreate(ss.st, o)
    IN IF r.st.raised THEN [ss EXCEPT !.st = r.st]
       ELSE [st |-> UpdateEntityId(r.st, o, r.node_id),
             sess |-> [ss.sess EXCEPT
                         !.map[r.node_id] = o,
                         !.inserts[o] = @ + 1,
                         !.base[o] = [has |-> TRUE, id |-> r.node_id,
                                      name |-> ss.st.ents[o].name]]]

\* AsyncSession._update_entity: map_to_cypher_merge raises
\* MappingException for an entity without an id value.
UpdateEntity(ss, o) ==
    IF ss.st.ents[o].id = NoId THEN Raise(ss)
    ELSE LET r == MapToCypherMerge(ss.st, o)
         IN IF r.st.raised THEN [ss EXCEPT !.st = r.st]
            ELSE [ss EXCEPT !.st = r.st,
                            !.sess.base[o] = [has |-> TRUE, id |-> ss.st.ents[o].id,
                                              name |-> ss.st.ents[o].name]]

\* AsyncSession._delete_entity: EntityNotFoundException for an entity
\* without an id value, else the statement of build_delete_by_id_query.
DeleteEntity(ss, o) ==
    LET id == ss.st.ents[o].id
        g == StoreDelete(ss.st.nodes, ss.st.edges,
                         BuildDeleteByIdQuery(ss.st.decl, ss.st.nodes, id))
    IN IF id = NoId THEN Raise(ss)
       ELSE IF Failing(ss.st)
       THEN [ss EXCEPT !.st = Fail(ss.st, Stmt("DELETE", id, NoId))]
       ELSE [ss EXCEPT !.st.nodes = g.nodes, !.st.edges = g.edges,
                       !.st.stmts = Append(@, Stmt("DELETE", id, NoId))]

RECURSIVE FlushNew(_, _, _)
\* for entity in list(self._new): await self._insert_entity(entity)
FlushNew(ss, q, i) ==
    IF i > Len(q) \/ ss.st.raised THEN ss
    ELSE FlushNew(InsertEntity(ss, q[i]), q, i + 1)

RECURSIVE FlushDirty(_, _, _)
\* for entity in list(self._dirty): update and capture when modified
FlushDirty(ss, q, i) ==
    IF i > Len(q) \/ ss.st.raised THEN ss
    ELSE LET u == IF IsEntityModified(ss, q[i]) THEN UpdateEntity(ss, q[i]) ELSE ss
             c == IF IsEntityModified(ss, q[i]) /\ ~u.st.raised
                  THEN CaptureState(u, q[i]) ELSE u
         IN FlushDirty(c, q, i + 1)

RECURSIVE FlushDeleted(_, _, _)
\* for entity in list(self._deleted): await self._delete_entity(entity)
FlushDeleted(ss, q, i) ==
    IF i > Len(q) \/ ss.st.raised THEN ss
    ELSE FlushDeleted(DeleteEntity(ss, q[i]), q, i + 1)

\* AsyncSession.flush (commit is the closed check and a flush).  qn, qd,
\* qx: the orders in which the three sets are iterated.  Any exception
\* leaves as QueryException, with the sets cleared as far as it got.
SessionFlush(ss, qn, qd, qx) ==
    IF ss.sess.closed THEN Raise(ss)
    ELSE LET a == FlushNew(ss, qn, 1)
             a1 == IF a.st.raised THEN a ELSE [a EXCEPT !.sess.new = {}]
             b == FlushDirty(a1, qd, 1)
             b1 == IF b.st.raised THEN b ELSE [b EXCEPT !.sess.dirty = {}]
             c == FlushDeleted(b1, qx, 1)
             c1 == IF c.st.raised THEN c ELSE [c EXCEPT !.sess.deleted = {}]
         IN [c1 EXCEPT !.st = Wrap(@)]

RECURSIVE RestoreAll(_, _)
RestoreAll(ss, S) ==
    IF S = {} THEN ss
    ELSE LET o == CHOOSE x \in S : TRUE
         IN RestoreAll(RestoreState(ss, o), S \ {o})

\* AsyncSession.rollback
SessionRollback(ss) ==
    IF ss.sess.closed THEN Raise(ss)
    ELSE RestoreAll([ss EXCEPT !.sess.new = {}, !.sess.dirty = {},
                               !.sess.deleted = {}],
                    {ss.sess.map[i] : i \in SessIds} \ {None})

\* AsyncSession.close
SessionClose(ss) ==
    IF ss.sess.closed THEN ss
    ELSE [ss EXCEPT !.sess = [NoSession EXCEPT !.closed = TRUE,
                                               !.entered = ss.sess.entered,
                                               !.exited = ss.sess.exited,
                                               !.loaded = ss.sess.loaded,
                                               !.base = ss.sess.base,
                                               !.inserts = ss.sess.inserts]]

\* AsyncSession.__aexit__: exc tells whether the block raised.  When the
\* commit raises, the session is rolled back and the exception raised
\* again, which leaves the method before close; a rollback that raises
\* leaves it there as well.
AExit(ss, exc, qn, qd, qx) ==
    IF ~exc
    THEN LET c == SessionFlush(ss, qn, qd, qx)
         IN IF c.st.raised
            THEN [SessionRollback([c EXCEPT !.st.raised = FALSE])
                     EXCEPT !.st.raised = TRUE]
            ELSE SessionClose(c)
    ELSE LET r == SessionRollback(ss)
         IN IF r.st.raised THEN r ELSE SessionClose(r)

\* What every session step does with the outcome of its method.
Step(ss, op, o, id, ret, ok) ==
    /\ ents' = ss.st.ents
    /\ nodes' = ss.st.nodes
    /\ edges' = ss.st.edges
    /\ stmts' = ss.st.stmts
    /\ session' = ss.sess
    /\ ops' = ops + 1
    /\ last' = [NoOp EXCEPT !.op = op, !.obj = o, !.arg = id,
                            !.raised = ss.st.raised, !.wraps = ss.st.wraps,
                            !.failAt = ss.st.failAt, !.ret = ret,
                            !.ok = ok,
                            !.pre = [new |-> session.new, dirty |-> session.dirty,
                                     deleted |-> session.deleted,
                                     closed |-> session.closed,
                                     got |-> IF id \in SessIds
                                             THEN session.got[id] ELSE NotYet]]
    /\ UNCHANGED <<security, decl, tracker, savedRel, found, proxy, fetched, tasks>>

Usable == ops < MaxSessOps /\ ~session.exited
\* On a closed session add, delete, flush and rollback raise RuntimeError
\* and change nothing; of the calls on a closed session the steps below
\* keep get and the leaving of the block.
Open == Usable /\ ~session.closed

\* session.add(o)
SessAdd(o) ==
    LET ss == Sess(0)
        r == IF session.closed THEN Raise(ss)
             ELSE IF o \in session.deleted
             THEN [ss EXCEPT !.sess.deleted = @ \ {o}, !.sess.dirty = @ \cup {o}]
             ELSE IF o \notin session.dirty /\ o \notin session.new
             THEN CaptureState([ss EXCEPT !.sess.new = @ \cup {o},
                                          !.sess.inserts[o] = 0], o)
             ELSE ss
    IN /\ Open
       /\ o \in InHand
       /\ Len(nodes) + Cardinality(session.new) <= MaxSessId
       /\ Step(r, "add", o, NoId, None, TRUE)

\* session.delete(o): the entity leaves the pending sets or joins the
\* deleted set, and its key leaves the identity map.
SessDelete(o) ==
    LET ss == Sess(0)
        id == ents[o].id
        a == IF o \in session.new
             THEN [ss EXCEPT !.sess.new = @ \ {o}]
             ELSE [ss EXCEPT !.sess.dirty = @ \ {o}, !.sess.deleted = @ \cup {o}]
        b == IF id \in SessIds THEN [a EXCEPT !.sess.map[id] = None] ELSE a
        r == IF session.closed THEN Raise(ss)
             ELSE [b EXCEPT !.sess.got = [i \in SessIds |-> NotYet]]
    IN /\ Open
       /\ o \in InHand
       /\ Step(r, "delete", o, NoId, None, TRUE)

\* AsyncSession.get past the identity map: the query, and the hydration of
\* its first row.
SessionGetLoad(ss, id, ok, slot) ==
    LET rows == BuildMatchByIdQuery(ss.st.decl, ss.st.nodes, id)
        q == [ss EXCEPT !.st.stmts = Append(@, Stmt("MATCH_ID", id, NoId))]
        i == CHOOSE x \in rows : \A y \in rows : x <= y
        h == MapFromNode(ss.st.decl, ss.st.nodes, i)
    IN IF ss.sess.closed THEN [ss |-> Raise(ss), ret |-> None]
       ELSE IF ~ok THEN [ss |-> [q EXCEPT !.st.raised = TRUE, !.st.wraps = 1],
                         ret |-> None]
       ELSE IF rows = {} THEN [ss |-> q, ret |-> None]
       ELSE [ss |-> CaptureState(
                       [q EXCEPT !.st.ents[slot] = [id |-> h.id, name |-> h.name,
                                                    rel |-> RelNone],
                                 !.sess.map[id] = slot,
                                 !.sess.base[slot] = [has |-> TRUE, id |-> h.id,
                                                      name |-> h.name],
                                 !.sess.loaded = @ \cup {slot}], slot),
             ret |-> slot]

\* AsyncSession.get: the instance of the identity map, or one query and,
\* when it has a row, a new instance (slot) that enters the map.
SessionGet(ss, id, ok, slot) ==
    IF ~ss.sess.closed /\ ss.sess.map[id] # None
    THEN [ss |-> ss, ret |-> ss.sess.map[id]]
    ELSE SessionGetLoad(ss, id, ok, slot)

\* session.get(Person, id); ok: the store answers the query.
SessGet(id, ok) ==
    LET slot == IF "C" \notin session.loaded THEN "C" ELSE "D"
        r == SessionGet(Sess(0), id, ok, slot)
        s == IF r.ss.st.raised \/ session.closed THEN r.ss
             ELSE [r.ss EXCEPT !.sess.got[id] = r.ret]
    IN /\ Usable
       /\ session.loaded # Loadable
       /\ ok \/ (~session.closed /\ session.map[id] = None)
       /\ Step(s, "get", "A", id, r.ret, ok)

\* The caller changes the ordinary property of an entity it holds.
SessSetName(o, n) ==
    /\ Open
    /\ o \in session.loaded \cup {"A"}
    /\ ents[o].name # n
    /\ Step([Sess(0) EXCEPT !.st.ents[o].name = n], "setname", o, NoId, None, TRUE)

Pending == Cardinality(session.new) + Cardinality(session.dirty)
              + Cardinality(session.deleted)

\* session.flush() / session.commit()
SessFlush(f, qn, qd, qx) ==
    /\ Open
    /\ f <= Pending
    /\ Step(SessionFlush(Sess(f), qn, qd, qx), "flush", "A", NoId, None, TRUE)

\* session.rollback()
SessRollback ==
    /\ Open
    /\ Step(SessionRollback(Sess(0)), "rollback", "A", NoId, None, TRUE)

\* session.close()
SessClose ==
    /\ Open
    /\ Step(SessionClose(Sess(0)), "close", "A", NoId, None, TRUE)

\* The context block is left, by its end or by an exception (exc).
SessExit(exc, f, qn, qd, qx) ==
    LET r == AExit(Sess(f), exc, qn, qd, qx)
    IN /\ session.entered /\ ~session.exited
       /\ f <= Pending
       /\ Step([r EXCEPT !.sess.exited = TRUE, !.st.raised = @ \/ exc],
               "exit", "A", NoId, None, ~exc)

NextSession ==
    \/ \E o \in Objs : SessAdd(o)
    \/ \E o \in Objs : SessDelete(o)
    \/ \E id \in SessIds, ok \in BOOLEAN : SessGet(id, ok)
    \/ \E o \in Objs, n \in Names : SessSetName(o, n)
    \/ \E f \in 0 .. MaxFailAt :
       \E qn \in Orders(session.new), qd \in Orders(session.dirty),
          qx \in Orders(session.deleted) : SessFlush(f, qn, qd, qx)
    \/ SessRollback
    \/ SessClose
    \/ \E exc \in BOOLEAN, f \in 0 .. MaxFailAt :
       \E qn \in Orders(session.new), qd \in Orders(session.dirty),
          qx \in Orders(session.deleted) : SessExit(exc, f, qn, qd, qx)

SpecSession == InitSession /\ [][NextSession]_vars

\* ------------------------------------------------- the security context
\* A role carries at most this many privileges.
MaxPrivs == 2

\* Privilege: action, resource_type, resource_label ("*": all labels) and
\* grant_type.
Privs == [action : {"READ"}, resource_type : {"NODE", "PROPERTY"},
          resource_label : {"Person", "*"}, grant_type : {"GRANT", "DENY"}]

\* SecurityContext.can, the parsing of the resource: a dotted name is a
\* property of its label, an upper-case name a relationship type.
ParseResource(res) ==
    CASE res = "Person.name" -> [resource_type |-> "PROPERTY", resource_label |-> "Person"]
      [] res = "KNOWS" -> [resource_type |-> "RELATIONSHIP", resource_label |-> "KNOWS"]
      [] OTHER -> [resource_type |-> "NODE", resource_label |-> res]

\* The keys of the privilege cache: action, resource type, label.
CacheKeys == {<<p.action, p.resource_type, p.resource_label>> : p \in Privs}

\* The user's effective roles (PUBLIC among them) and the privileges the
\* graph holds for each role; the context has read none of them yet.
InitSecurity ==
    /\ decl \in SessDecls /\ decl.idgen
    /\ nodes = <<>>
    /\ ents = [o \in Objs |-> [id |-> NoId, name |-> "n1", rel |-> RelNone]]
    /\ edges = EmptyBag
    /\ tracker = {}
    /\ stmts = <<>>
    /\ last = FirstOp
    /\ ops = 0
    /\ savedRel = [o \in Objs |-> RelNone]
    /\ found = NotFound
    /\ proxy = NoProxy
    /\ fetched = <<>>
    /\ tasks = NoTasks
    /\ session = NoSession
    /\ \E R \in SUBSET {"reader", "admin"} :
       \E gp \in {P \in SUBSET Privs : Cardinality(P) <= MaxPrivs},
          gr \in {P \in SUBSET Privs : Cardinality(P) <= MaxPrivs} :
          security = [NoSecurity EXCEPT
                        !.roles = R \cup {"PUBLIC"},
                        !.todo = R \cup {"PUBLIC"},
                        !.granted = [r \in RoleNames |->
                                       IF r = "PUBLIC" THEN gp
                                       ELSE IF r = "reader" THEN gr ELSE {}],
                        !.cache = [k \in CacheKeys |-> "absent"]]

\* The cache after one privilege is read.  DENY always writes False; GRANT
\* writes True only when the key has no value yet.
RECURSIVE CacheAll(_, _, _)
CacheAll(cache, q, i) ==
    IF i > Len(q) THEN cache
    ELSE LET p == q[i]
             k == <<p.action, p.resource_type, p.resource_label>>
         IN CacheAll([cache EXCEPT ![k] =
                         IF p.grant_type = "DENY" THEN "denied"
                         ELSE IF @ = "absent" THEN "granted" ELSE @],
                     q, i + 1)

\* SecurityContext._build_privilege_cache, one role of the loop: the
\* privileges of the role are loaded (ok; a query that fails yields none)
\* and cached in the order q in which the graph returns them.
LoadRole(r, ok) ==
    /\ r \in security.todo
    /\ \E q \in Orders(security.granted[r]) : security' = [security EXCEPT
                      !.todo = @ \ {r},
                      !.cache = IF ok THEN CacheAll(@, q, 1) ELSE @]
    /\ stmts' = <<Stmt("PRIVS", NoId, NoId)>>
    /\ UNCHANGED <<decl, ents, nodes, edges, tracker, last, ops, savedRel,
                   found, proxy, fetched, tasks, session>>

\* SecurityContext.can
SecurityCan(sec, action, res) ==
    LET p == ParseResource(res)
        k == <<action, p.resource_type, p.resource_label>>
        w == <<action, p.resource_type, "*">>
    IN IF "admin" \in sec.roles THEN TRUE
       ELSE IF k \in CacheKeys /\ sec.cache[k] # "absent"
       THEN sec.cache[k] = "granted"
       ELSE IF w \in CacheKeys /\ sec.cache[w] # "absent"
       THEN sec.cache[w] = "granted"
       ELSE FALSE

\* context.can(action, res), once the context is constructed.
Can(action, res) ==
    /\ security.todo = {}
    /\ security' = [security EXCEPT !.asked = <<action, res>>,
                                    !.ret = SecurityCan(security, action, res)]
    /\ stmts' = <<>>
    /\ UNCHANGED <<decl, ents, nodes, edges, tracker, last, ops, savedRel,
                   found, proxy, fetched, tasks, session>>

NextSecurity ==
    \/ \E r \in RoleNames, ok \in BOOLEAN : LoadRole(r, ok)
    \/ \E res \in {"Person", "Person.name", "KNOWS"} : Can("READ", res)

SpecSecurity == InitSecurity /\ [][NextSecurity]_vars

\* ------------------------------------------------------------ vocabulary
LastSave == last.op = "save"
Root == last.obj
Field == ents[last.obj].rel
Items(v) == {v.items[i] : i \in 1 .. Len(v.items)}
\* How many edges of the relationship the store holds from node n to node m.
OutCount(n, m) == CopiesIn(EdgeOf(decl, n, m), edges)
EdgeStmts == {k \in 1 .. Len(stmts) : stmts[k].kind = "EDGE"}
NodeStmts == {k \in 1 .. Len(stmts) : stmts[k].kind \in {"CREATE", "MERGE"}}

\* ---------------------------------------------------------------- claims
\* C1 (as claimed): A was saved with friends=[B,C] and is saved again with
\* friends=[D], all targets persisted: afterwards the store holds exactly
\* one edge of the relationship from A's node, and it points to D.
C1_UpdateReplacesEdges ==
    (/\ LastSave /\ last.hadId /\ decl.is_collection
     /\ last.prevRel.kind = "list" /\ Len(last.prevRel.items) = 2
     /\ Field.kind = "list" /\ Len(Field.items) = 1
     /\ Items(Field) \cap Items(last.prevRel) = {}
     /\ \A t \in Items(Field) \cup Items(last.prevRel) : last.ids[t] # NoId)
    => LET a == ents[Root].id
           d == ents[Field.items[1]].id
       IN /\ OutCount(a, d) = 1
          /\ \A m \in NodeIds(nodes) \ {d} : OutCount(a, m) = 0

\* C2: saving a new entity A whose cascade=true SINGLE field holds an
\* unsaved B gives both an id and a node of their own, and the store then
\* holds exactly one edge of A's relationship from A's node to B's node.
C2_CascadeSingle ==
    (/\ LastSave /\ ~last.hadId /\ ~decl.is_collection /\ decl.cascade
     /\ Field.kind = "one"
     /\ last.ids[Field.items[1]] = NoId)
    => LET a == ents[Root].id
           b == ents[Field.items[1]].id
       IN /\ ~last.raised
          /\ a # NoId /\ b # NoId /\ a # b
          /\ a \in NodeIds(nodes) /\ b \in NodeIds(nodes)
          /\ a >= last.nNodes /\ b >= last.nNodes
          /\ OutCount(a, b) = 1

C2_Witness ==
    /\ LastSave /\ ~last.hadId /\ ~decl.is_collection /\ decl.cascade
    /\ Field.kind = "one"
    /\ last.ids[Field.items[1]] = NoId
    /\ ents[Field.items[1]].id # NoId
    /\ OutCount(ents[Root].id, ents[Field.items[1]].id) = 1

\* C3: every save returns (no unbounded nesting of saves); for two unsaved
\* entities with cascade=true fields that hold each other, save(A) sends
\* four statements and leaves the edge from A to B and the edge from B to A.
C3_CycleTerminates ==
    /\ LastSave => ~last.raised
    /\ (/\ LastSave /\ decl.is_collection /\ decl.cascade /\ Root = "A"
        /\ ents["A"].rel = RelList(<<"B">>) /\ ents["B"].rel = RelList(<<"A">>)
        /\ last.ids["A"] = NoId /\ last.ids["B"] = NoId)
       => /\ Len(stmts) = 4
          /\ OutCount(ents["A"].id, ents["B"].id) = 1
          /\ OutCount(ents["B"].id, ents["A"].id) = 1

C3_Witness ==
    /\ LastSave /\ decl.is_collection /\ decl.cascade /\ Root = "A"
    /\ ents["A"].rel = RelList(<<"B">>) /\ ents["B"].rel = RelList(<<"A">>)
    /\ last.ids["A"] = NoId /\ last.ids["B"] = NoId
    /\ ents["A"].id # NoId /\ ents["B"].id # NoId
    /\ Len(stmts) = 4

\* C4: saving an entity whose cascade=false field holds an unsaved B
\* succeeds, leaves B without id, creates no node for B (the only node a
\* save can add is the saved entity's own) and creates no edge to B: edges
\* are created for the targets that had an id, and for no other.
C4_NoCascade ==
    (LastSave /\ ~decl.cascade /\ Field.kind \in {"list", "one"})
    => /\ ~last.raised
       /\ \A t \in Items(Field) \ {Root} :
             last.ids[t] = NoId => ents[t].id = NoId
       /\ Cardinality(NodeStmts) = 1
       /\ Len(nodes) <= last.nNodes + 1
       /\ \A k \in EdgeStmts :
             \E t \in Items(Field) : ents[t].id # NoId /\ stmts[k].b = ents[t].id
       /\ Cardinality(EdgeStmts) =
             Cardinality({i \in 1 .. Len(Field.items) : ents[Field.items[i]].id # NoId})

C4_Witness ==
    /\ LastSave /\ ~decl.cascade /\ Field.kind \in {"list", "one"}
    /\ \E t \in Items(Field) \ {Root} : last.ids[t] = NoId /\ ents[t].id = NoId
    /\ EdgeStmts = {}

\* C5 (as claimed): saving an entity whose collection field is an empty
\* list creates no edge and raises nothing, and when the entity already had
\* an id no edge of that relationship from its node remains.
C5_EmptyListClears ==
    (LastSave /\ decl.is_collection /\ Field = RelList(<<>>))
    => /\ ~last.raised
       /\ EdgeStmts = {}
       /\ last.hadId =>
             \A m \in NodeIds(nodes) : OutCount(ents[Root].id, m) = 0

\* C6 (as claimed): a save of an entity that already has an id adds no
\* node, updates the node whose identity is that id, leaves the entity's id
\* unchanged and attaches the edges it writes to that node.
C6_ResaveSameNode ==
    (LastSave /\ last.hadId)
    => /\ ents[Root].id = last.ids[Root]
       /\ last.node_id = ents[Root].id
       /\ last.node_id < last.nNodes
       /\ NodeAt(nodes, ents[Root].id).name = ents[Root].name
       /\ \A t \in Items(Field) :
             ents[t].id # NoId => OutCount(ents[Root].id, ents[t].id) >= 1

\* C7 (as claimed): find_by_id(e.id) right after save(e) returns an entity
\* whose property equals e's, for a new e and for a changed and re-saved e.
C7_SaveFindRoundTrip ==
    (last.op = "find" /\ last.arg = ents[Root].id)
    => found.present /\ found.name = ents[Root].name

\* The rows the load query of the proxy would return from the store now.
RowsNow == LoadRows(decl, nodes, edges, proxy.source_id, 0)

\* C8: a collection proxy has issued no query before its first read access;
\* its first access issues exactly one; an access that finds the proxy
\* loaded issues none; the proxy is loaded by the one query the store
\* answered, and every access that returns gives the sequence cached then.
C8_CollectionProxyCaches ==
    proxy.kind = "list" =>
       /\ proxy.accesses = 0 => proxy.queries = 0 /\ ~proxy.loaded
       /\ proxy.accesses = 1 => proxy.queries = 1
       /\ proxy.queries = proxy.fails + (IF proxy.loaded THEN 1 ELSE 0)
       /\ last.op = "access" => Len(stmts) = (IF proxy.hit THEN 0 ELSE 1)
       /\ proxy.loaded => proxy.items = proxy.seen
       /\ (proxy.accesses > 0 /\ ~proxy.raised) =>
             proxy.loaded /\ proxy.ret = proxy.seen

C8_Witness ==
    /\ proxy.kind = "list" /\ proxy.loaded /\ proxy.hit
    /\ proxy.accesses >= 2 /\ proxy.queries = 1
    /\ Len(proxy.ret) >= 1
    /\ proxy.ret # RowsNow

\* C9: get() of a reference proxy returns the first target the load query
\* found, or null when it found none; the first get() issues exactly one
\* query, a get() that finds the proxy loaded issues none and returns the
\* cached value, a cached null included.
C9_ReferenceProxyCaches ==
    proxy.kind = "single" =>
       /\ proxy.accesses = 0 => proxy.queries = 0 /\ ~proxy.loaded
       /\ proxy.accesses = 1 => proxy.queries = 1
       /\ proxy.queries = proxy.fails + (IF proxy.loaded THEN 1 ELSE 0)
       /\ (last.op = "access" /\ proxy.hit) => stmts = <<>>
       /\ proxy.loaded =>
             proxy.items = (IF proxy.seen = <<>> THEN <<>> ELSE <<proxy.seen[1]>>)
       /\ (proxy.accesses > 0 /\ ~proxy.raised) =>
             proxy.loaded /\ proxy.ret = proxy.items

C9_Witness ==
    /\ proxy.kind = "single" /\ proxy.loaded /\ proxy.hit
    /\ proxy.accesses >= 2 /\ proxy.queries = 1
    /\ proxy.ret = <<>>
    /\ RowsNow # <<>>

\* C10: find_all with fetch hints sends exactly one statement to the
\* store, however many entities match and however many related nodes each
\* has.
C10_FindAllOneQuery ==
    (last.op = "find_all" /\ last.fetch) => Len(stmts) = 1

C10_Witness ==
    /\ last.op = "find_all" /\ last.fetch /\ ~last.raised
    /\ Len(fetched) >= 2
    /\ \E k \in 1 .. Len(fetched) : Len(fetched[k].rel.items) >= 2
    /\ Len(stmts) = 1

\* The type a requested relationship field has once it is hydrated.
Hydrated == IF decl.is_collection THEN "list" ELSE "one"

\* C11 (as claimed): after find_by_id or find_all with fetch hints has
\* returned, the relationship field of each returned entity holds the
\* hydrated targets (a list, or the first target or null) and no Loading
\* Proxy, and reading the field sends no statement.
C11_EagerFieldsHydrated ==
    /\ (last.op \in {"find_by_id", "find_all"} /\ last.fetch /\ ~last.raised)
       => /\ \A k \in 1 .. Len(fetched) : fetched[k].rel.kind = Hydrated
          /\ proxy.kind = "none"
    /\ (last.op = "access" /\ last.fetch) => stmts = <<>>

\* No live node has the internal id or the property id `id`.
NoNodeHas(id) ==
    \A i \in NodeIds(nodes) :
       NodeAt(nodes, i).label # Gone =>
          i # id /\ NodeAt(nodes, i).idprop # id

\* C12: find_by_id with an id no node has returns None and raises nothing,
\* with and without fetch hints, whenever the store answers the query.
C12_FindMissingReturnsNull ==
    (last.op = "find_by_id" /\ last.ok /\ NoNodeHas(last.arg))
    => ~last.raised /\ fetched = <<>> /\ Len(stmts) = 1

C12_Witness ==
    /\ last.op = "find_by_id" /\ last.ok /\ last.fetch /\ NoNodeHas(last.arg)
    /\ last.arg \in NodeIds(nodes)
    /\ NodeAt(nodes, last.arg).label = Gone
    /\ fetched = <<>>

C18_HydrationIdFallback ==
    \A k \in 1 .. Len(fetched) :
       NodeAt(nodes, fetched[k].node.internal).idprop = NoId
       => fetched[k].node.id = fetched[k].node.internal

\* The save ended because the store failed one of its statements.
FailedSave == LastSave /\ last.raised /\ last.failAt # 0
\* The statements of the save that the store carried out.
Done == 1 .. (Len(stmts) - 1)
CreatesDone == {k \in Done : stmts[k].kind = "CREATE"}

\* C14: when the store fails a statement of a save, the save raises, no
\* statement follows the failed one (no compensating delete), the nodes
\* and edges the earlier statements wrote are in the store, and the ids
\* they gave to entities stay assigned.
C14_FailedSaveKeepsWrites ==
    FailedSave =>
       /\ Len(stmts) = last.failAt
       /\ \A k \in 1 .. Len(stmts) : stmts[k].kind \in {"CREATE", "MERGE", "EDGE"}
       /\ \A k \in Done :
             stmts[k].kind \in {"CREATE", "MERGE"} =>
                /\ stmts[k].a \in NodeIds(nodes)
                /\ NodeAt(nodes, stmts[k].a).label = Label
       /\ Len(nodes) >= last.nNodes + Cardinality(CreatesDone)
       /\ \A k \in CreatesDone :
             \E o \in Objs : last.ids[o] = NoId /\ ents[o].id = stmts[k].a
       /\ \A k \in Done :
             stmts[k].kind = "EDGE" =>
                LET e == EdgeOf(decl, stmts[k].a, stmts[k].b)
                IN CopiesIn(e, edges) = CopiesIn(e, last.pre)
                      + Cardinality({j \in Done : stmts[j] = stmts[k]})

C14_Witness ==
    /\ FailedSave /\ decl.cascade
    /\ Cardinality(CreatesDone) >= 2
    /\ \E k \in Done : stmts[k].kind = "EDGE"
    /\ BagCardinality(edges) >= 1

\* C15 (as claimed): the caller of a save whose statement the store failed
\* receives the store's own error, wrapped in nothing, and the failed
\* statement is sent once.
C15_StoreErrorUnwrapped ==
    FailedSave => last.wraps = 0 /\ Len(stmts) = last.failAt

\* C15 (amended): the caller receives the store's error wrapped in
\* QueryException, once for the save called and once more for each nested
\* save of a cascade that the failing statement belongs to; the failed
\* statement is sent once and nothing is sent after it.
C15_StoreErrorWrapped ==
    FailedSave =>
       /\ last.wraps >= 1
       /\ last.wraps <= 1 + Cardinality({k \in Done : stmts[k].kind \in {"CREATE", "MERGE"}})
       /\ last.failAt = 1 => last.wraps = 1
       /\ ~decl.cascade => last.wraps = 1
       /\ Len(stmts) = last.failAt
       /\ stmts[Len(stmts)].a = NoId \/ stmts[Len(stmts)].kind = "EDGE"

C15_Witness ==
    /\ FailedSave /\ last.wraps = 2
    /\ stmts[Len(stmts)].kind = "CREATE"

\* The edge statements a save of o sends when no other call is in progress.
AloneEdges(o) ==
    Cardinality({k \in 1 .. Len(FieldItems(o)) : ents[FieldItems(o)[k]].id # NoId})

\* C13: a save that overlaps another save on the same repository processes
\* the relationship field of its entity as it does when run alone: it is
\* never skipped because of a tracker entry the other call added, and it
\* sends one edge statement for every related entity that has an id.
C13_ConcurrentSavesIndependent ==
    \A t \in Tasks :
       tasks[t].pc = "done" =>
          /\ ~tasks[t].skipped
          /\ tasks[t].sent = AloneEdges(tasks[t].o)

\* C17: called for the same entity, source id and store, in the first-save
\* and in the update situation, the blocking and the cooperative engine
\* send the same statements and leave the same nodes, edges and entity
\* ids, and either both raise or neither does.
C17_EnginesAgree ==
    last.op = "relsave" =>
       last.twin = [stmts |-> stmts, nodes |-> nodes, edges |-> edges,
                    ids |-> [o \in Objs |-> ents[o].id],
                    raised |-> last.raised]

\* An earlier get of the same id, in this session and with no delete
\* since, returned an instance.
GotBefore == last.pre.got \notin {NotYet, None}

\* C19: in an open session, a get of an id for which an earlier get
\* returned an instance, with no delete in between, returns that very
\* instance and sends no statement to the store.
C19_IdentityMap ==
    (last.op = "get" /\ ~last.raised /\ GotBefore)
       => last.ret = last.pre.got /\ stmts = <<>>

\* C20: when the context block is left the session is closed; a block that
\* ended without an exception had its pending changes flushed first (one
\* CREATE for each new entity, one DELETE for each deleted one, when the
\* store fails none), and for a block that raised no statement is sent
\* and nothing is left pending.
C20_ExitCloses ==
    last.op = "exit" =>
       /\ session.closed
       /\ session.new = {} /\ session.dirty = {} /\ session.deleted = {}
       /\ (last.ok /\ last.failAt = 0) =>
             /\ Cardinality({k \in 1 .. Len(stmts) : stmts[k].kind = "CREATE"})
                   = Cardinality(last.pre.new)
             /\ Cardinality({k \in 1 .. Len(stmts) : stmts[k].kind = "DELETE"})
                   = Cardinality(last.pre.deleted)
       /\ ~last.ok => stmts = <<>>

\* C21: after rollback() nothing is pending, and every entity of the
\* identity map has the properties it had when it was loaded or last
\* written by a flush.
C21_RollbackRestores ==
    (last.op = "rollback" /\ ~last.raised) =>
       /\ session.new = {} /\ session.dirty = {} /\ session.deleted = {}
       /\ \A o \in {session.map[i] : i \in SessIds} \ {None} :
             session.base[o].has =>
                /\ ents[o].name = session.base[o].name
                /\ ents[o].id = session.base[o].id

\* C30: whatever flushes are called, one that failed and is called again
\* included, the store carries out at most one CREATE for an entity added
\* to the session.
C30_InsertedAtMostOnce == \A o \in Objs : session.inserts[o] <= 1

\* C22: for a user without the admin role, can() answers false whenever an
\* effective role carries a DENY that applies to the action and resource,
\* whatever GRANTs apply and in whatever order roles and privileges were
\* read.
C22_DenyPrecedence ==
    (/\ security.asked # <<>>
     /\ "admin" \notin security.roles
     /\ \E r \in security.roles : \E p \in security.granted[r] :
           /\ p.grant_type = "DENY"
           /\ p.action = security.asked[1]
           /\ p.resource_type = ParseResource(security.asked[2]).resource_type
           /\ p.resource_label \in
                 {ParseResource(security.asked[2]).resource_label, "*"})
    => ~security.ret

C24_DeleteBeforeCreate ==
    (/\ last.op = "relsave" /\ last.hadId
     /\ ents[last.obj].rel.kind \notin {"none", "lazy"}) =>
       /\ ~last.raised
       /\ stmts # <<>>
       /\ stmts[1] = Stmt("DELETE_EDGES", last.node_id, NoId)

\* C25: when a save_relationships call returns, normally or by raising,
\* the guard set holds exactly the keys it held when the call began.
C25_GuardRestored ==
    [][(ops' = ops + 1 /\ last'.op \in {"save", "relsave"})
          => tracker' = tracker]_vars

\* A save_relationships call that added its key raised, and the guard set
\* holds the other keys it began with.
C25_Witness ==
    /\ last.op = "relsave" /\ last.raised
    /\ tracker # {}
    /\ <<last.obj, last.node_id>> \notin tracker

\* The entities the last save gave an id.
NewlySaved == {o \in Objs : last.ids[o] = NoId /\ ents[o].id # NoId}

\* C26: a save sends no create or merge statement for a related entity
\* that already had an id and leaves that id as it was, whatever the
\* cascade flag: its node statements are those of the entities it gave an
\* id, and the root's merge.  Saving a new entity whose reference field
\* holds such a target sends exactly two statements, the creation of the
\* source's node and the creation of one edge to the target's id.
C26_SavedTargetNotResaved ==
    (LastSave /\ ~last.raised) =>
       /\ \A t \in Objs \ {Root} : last.ids[t] # NoId => ents[t].id = last.ids[t]
       /\ Cardinality(NodeStmts) =
             Cardinality(NewlySaved) + (IF last.hadId THEN 1 ELSE 0)
       /\ (/\ ~last.hadId /\ ~decl.is_collection /\ Field.kind = "one"
           /\ last.ids[Field.items[1]] # NoId)
          => /\ Len(stmts) = 2
             /\ stmts[1] = Stmt("CREATE", ents[Root].id, NoId)
             /\ stmts[2] = Stmt("EDGE", ents[Root].id, last.ids[Field.items[1]])
             /\ Len(nodes) = last.nNodes + 1

C26_Witness ==
    /\ LastSave /\ ~last.raised /\ ~last.hadId
    /\ decl.cascade /\ ~decl.is_collection /\ Field.kind = "one"
    /\ last.ids[Field.items[1]] # NoId
    /\ Len(stmts) = 2

\* C27: within one cascading save every entity that was unsaved and is
\* reached, by however many paths, gets exactly one node: one creation is
\* sent for it, the node is new and shared with no other entity, no other
\* creation is sent, and every edge statement ends at the id of the entity
\* a field holds.
C27_OneNodePerEntity ==
    (LastSave /\ ~last.raised /\ decl.cascade) =>
       /\ \A o \in NewlySaved : Cardinality({k \in 1 .. Len(stmts) :
                            stmts[k] = Stmt("CREATE", ents[o].id, NoId)}) = 1
       /\ \A o, p \in NewlySaved : ents[o].id = ents[p].id => o = p
       /\ \A o \in NewlySaved :
             ents[o].id >= last.nNodes /\ ents[o].id \in NodeIds(nodes)
       /\ Cardinality({k \in NodeStmts : stmts[k].kind = "CREATE"}) =
             Cardinality(NewlySaved)
       /\ \A k \in EdgeStmts : \E o, t \in Objs :
             /\ t \in Items(ents[o].rel)
             /\ ents[t].id # NoId /\ stmts[k].b = ents[t].id

\* A save of A reached the unsaved C through A's own field and through
\* B's.
C27_Witness ==
    /\ LastSave /\ ~last.raised /\ decl.cascade /\ Root = "A"
    /\ ents["A"].rel = RelList(<<"B", "C">>)
    /\ ents["B"].rel = RelList(<<"C">>)
    /\ {"A", "B", "C"} \subseteq NewlySaved
    /\ Cardinality(EdgeStmts) = 3

\* C28: the load query of a proxy is sent at most once, also when two
\* readers make the first read access at overlapping times, and the
\* readers that have returned got the same cached result.
C28_OneLoadQuery ==
    /\ proxy.queries <= 1
    /\ \A t, u \in Tasks :
          (tasks[t].pc = "done" /\ tasks[u].pc = "done") => tasks[t].ret = tasks[u].ret

\* C29: for the same stored graph, source node and declaration, the field
\* find_by_id with fetch hints hydrated holds the related entities that the
\* first read of the Loading Proxy returns: the same nodes, as many.
C29_LazyEagerAgree ==
    (/\ last.op = "access" /\ last.fetch /\ ~last.raised
     /\ proxy.accesses = 1 /\ proxy.source_id = fetched[1].node.internal)
    => /\ fetched[1].rel.kind = Hydrated
       /\ fetched[1].rel.items = proxy.ret
====
